---- MODULE Spec2Model ----
(***************************************************************************)
(* JetStream client binding logic of nats.go (js.go): js.subscribe, the    *)
(* pull driver Subscription.Poll and the acknowledgment codec Msg.ackReply. *)
(* The transport (Conn.Request, Conn.Publish, Conn.subscribe) and the      *)
(* server are the environment: every request has a nondeterministic        *)
(* outcome, and every message handed to the transport is logged.           *)
(***************************************************************************)
EXTENDS Integers, Sequences, FiniteSets, TLC

VARIABLES
    js,       \* the JetStream context: [pre, direct]
    call,     \* the js.subscribe call: its arguments, locals and position
    sub,      \* the Subscription made by the call, with its jsSub binding (jsi)
    net,      \* what the subscribe call handed to the transport, in order
    inboxes,  \* how many inbox subjects NewInbox has generated
    op,       \* the last operation on a delivered message: what it was called
              \* on, what it returned and what it handed to the transport
    api,      \* the last call on the JetStream context itself (publish, context
              \* creation, stream and consumer management): its arguments, the
              \* response it got, what it returned and what it handed to the
              \* transport
    dlv,      \* the delivery of a message to the subscription's callback: how
              \* far it is, and what the installed callback did besides
              \* running the user's callback
    acc       \* the reads and writes of the subscription's binding fields made
              \* so far: by which function, of which field, and whether
              \* sub.mu was held

vars == <<js, call, sub, net, inboxes, op, api, dlv, acc>>

----------------------------------------------------------------------------
(* Bounds *)

\* Largest batch size passed to Pull / PullDirect.
MaxBatch == 2

\* How many messages are handed to the callback of the subscription.
MaxDeliveries == 2

\* Longest token handed to parseNum on its own.
MaxTokenLen == 3

----------------------------------------------------------------------------
(* Values *)

_EMPTY_ == ""

JSDefaultAPIPrefix == "$JS.API."
JSApiAccountInfo == "INFO"
JSApiStreamCreateT(stream) == "STREAM.CREATE." \o stream
JSApiStreamInfoT(stream) == "STREAM.INFO." \o stream
JSApiStreams == "STREAM.NAMES"

JSApiConsumerCreateT(stream) == "CONSUMER.CREATE." \o stream
JSApiDurableCreateT(stream, durable) ==
    "CONSUMER.DURABLE.CREATE." \o stream \o "." \o durable
JSApiConsumerInfoT(stream, consumer) ==
    "CONSUMER.INFO." \o stream \o "." \o consumer
\* Mutant: the consumer name comes before the stream name.
JSApiRequestNextT_ConsumerFirst(stream, consumer) ==
    "CONSUMER.MSG.NEXT." \o consumer \o "." \o stream
JSApiRequestNextT(stream, consumer) ==
    "CONSUMER.MSG.NEXT." \o stream \o "." \o consumer

AckAck == "+ACK"
AckNak == "-NAK"
AckProgress == "+WPI"
AckNext == "+NXT"
AckTerm == "+TERM"
AckNextOne == "+NXT {\"batch\":1}"

\* jetstream.AckPolicy values; ackPolicyNotSet is the marker subscribe starts from.
ackPolicyNotSet == "AckPolicy(99)"
AckExplicit == "explicit"
AckNone == "none"

\* The pending-message limit a new Subscription starts with.
DefaultSubPendingMsgsLimit == 65536

\* Errors.
ErrNone == "nil"
ErrBatchSize == "nats: batch size of 0 not valid"
ErrPullModeNotAllowed == "ErrPullModeNotAllowed"
ErrDirectModeRequired == "ErrDirectModeRequired"
ErrSubjectMismatch == "ErrSubjectMismatch"
ErrNoMatchingStream == "ErrNoMatchingStream"
ErrJetStreamNotEnabled == "ErrJetStreamNotEnabled"
ErrNoResponders == "ErrNoResponders"
ErrTimeout == "ErrTimeout"
ErrTypeSubscription == "ErrTypeSubscription"
ErrMsgNoReply == "ErrMsgNoReply"
ErrMsgNotBound == "ErrMsgNotBound"
ErrNotJSMessage == "ErrNotJSMessage"
ErrConnectionClosed == "ErrConnectionClosed"
ErrJSONMarshal == "json: error calling MarshalJSON for type *time.Time"
ErrJSONUnmarshal == "json: invalid character"
ErrContextAndTimeout == "ErrContextAndTimeout"
ErrInvalidContext == "ErrInvalidContext"
ErrNoStreamResponse == "ErrNoStreamResponse"
ErrInvalidJSAck == "ErrInvalidJSAck"
ErrStreamNameRequired == "ErrStreamNameRequired"
ErrPanicNilPointer == "panic: invalid memory address or nil pointer dereference"
ErrServerDescription == "server: consumer error description"

\* Arguments a caller can pass.
Subjects == {"foo"}
\* Filter subjects an existing consumer can have.
FilterSubjects == {_EMPTY_, "foo", "bar"}
Queues == {_EMPTY_, "q"}
StreamNames == {_EMPTY_, "S"}
ConsumerNames == {_EMPTY_, "C"}
DeliverSubjects == {_EMPTY_, "d"}
DurableNames == {_EMPTY_, "dur"}
\* StartTime option: not given, a time json can encode, a time it cannot
\* (year outside [0,9999] makes Time.MarshalJSON fail).
StartTimes == {"unset", "valid", "year10000"}
\* Pull option: not given, or given with a batch size.
NoPull == [given |-> FALSE, batch |-> 0]
PullOpts == {NoPull} \cup [given : {TRUE}, batch : (-1)..MaxBatch]

\* Prefixes a context can hold after Conn.JetStream (default, or APIPrefix("imp")).
Prefixes == {JSDefaultAPIPrefix, "imp."}

\* Reply subjects of delivered messages: none, and the reply subject of a
\* JetStream delivery.
ReplySubjects == {_EMPTY_, "$JS.ACK.S.C.1.2.3.4.5"}

\* Reply subjects metadata is asked of: also ones with a token missing, a
\* token too many, other markers, and an empty token; and ones whose numbers
\* are not a number, empty, or have several digits.
MetaReplySubjects ==
    ReplySubjects \cup {"$JS.ACK.S.C.1.2.3.4", "$JS.ACK.S.C.1.2.3.4.5.6",
                        "$JS.NAK.S.C.1.2.3.4.5", "JS.ACK.S.C.1.2.3.4.5",
                        "$JS.ACK.S..1.2.3.4.5"}
    \cup {"$JS.ACK.S.C.x.2.3.4.5", "$JS.ACK.S.C.1.2.3.4.",
          "$JS.ACK.S.C.12.34.56.78.90"}

\* The bytes of a subject, subject[0], subject[1], ...
Bytes(s) ==
    CASE s = _EMPTY_ -> <<>>
      [] s = "$JS.ACK.S.C.1.2.3.4.5" ->
            <<"$", "J", "S", ".", "A", "C", "K", ".", "S", ".", "C", ".", "1", ".", "2", ".", "3", ".", "4", ".", "5">>
      [] s = "$JS.ACK.S.C.1.2.3.4" ->
            <<"$", "J", "S", ".", "A", "C", "K", ".", "S", ".", "C", ".", "1", ".", "2", ".", "3", ".", "4">>
      [] s = "$JS.ACK.S.C.1.2.3.4.5.6" ->
            <<"$", "J", "S", ".", "A", "C", "K", ".", "S", ".", "C", ".", "1", ".", "2", ".", "3", ".", "4", ".", "5", ".", "6">>
      [] s = "$JS.NAK.S.C.1.2.3.4.5" ->
            <<"$", "J", "S", ".", "N", "A", "K", ".", "S", ".", "C", ".", "1", ".", "2", ".", "3", ".", "4", ".", "5">>
      [] s = "JS.ACK.S.C.1.2.3.4.5" ->
            <<"J", "S", ".", "A", "C", "K", ".", "S", ".", "C", ".", "1", ".", "2", ".", "3", ".", "4", ".", "5">>
      [] s = "$JS.ACK.S..1.2.3.4.5" ->
            <<"$", "J", "S", ".", "A", "C", "K", ".", "S", ".", ".", "1", ".", "2", ".", "3", ".", "4", ".", "5">>
      [] s = "$JS.ACK.S.C.x.2.3.4.5" ->
            <<"$", "J", "S", ".", "A", "C", "K", ".", "S", ".", "C", ".", "x", ".", "2", ".", "3", ".", "4", ".", "5">>
      [] s = "$JS.ACK.S.C.1.2.3.4." ->
            <<"$", "J", "S", ".", "A", "C", "K", ".", "S", ".", "C", ".", "1", ".", "2", ".", "3", ".", "4", ".">>
      [] s = "$JS.ACK.S.C.12.34.56.78.90" ->
            <<"$", "J", "S", ".", "A", "C", "K", ".", "S", ".", "C", ".", "1", "2", ".", "3", "4", ".", "5", "6", ".", "7", "8", ".", "9", "0">>
      [] s = "." ->
            <<".">>
      [] s = "imp" ->
            <<"i", "m", "p">>
      [] s = "imp." ->
            <<"i", "m", "p", ".">>
      [] s = "a.b" ->
            <<"a", ".", "b">>
      [] s = "a.b." ->
            <<"a", ".", "b", ".">>
      [] s = "$JS.API." ->
            <<"$", "J", "S", ".", "A", "P", "I", ".">>

\* The code of a byte.
Ascii(ch) ==
    CASE ch = "$" -> 36 [] ch = "." -> 46
      [] ch = "0" -> 48 [] ch = "1" -> 49 [] ch = "2" -> 50 [] ch = "3" -> 51
      [] ch = "4" -> 52 [] ch = "5" -> 53 [] ch = "6" -> 54 [] ch = "7" -> 55
      [] ch = "8" -> 56 [] ch = "9" -> 57
      [] ch = "A" -> 65 [] ch = "C" -> 67 [] ch = "J" -> 74 [] ch = "K" -> 75
      [] ch = "N" -> 78 [] ch = "S" -> 83 [] ch = "x" -> 120

\* The width in bits of the model's int64 and uint64.
IntBits == 8

\* An integer as the int64 and as the uint64 with the same bits.
Int64(n) == ((n + 2^(IntBits - 1)) % 2^IntBits) - 2^(IntBits - 1)
Uint64(n) == n % 2^IntBits

----------------------------------------------------------------------------
(* Transport events *)

RawBody(bytes) == [raw |-> bytes]
NilBody == [raw |-> "<nil>"]

\* json.Marshal(&jetstream.NextRequest{Batch: batch}); Batch is omitempty.
NextRequestJSON(batch) == IF batch = 0 THEN [json |-> "{}"] ELSE [batch |-> batch]
\* json.Marshal(&streamRequest{subj}); Subject is omitempty.
StreamRequestJSON(subj) == IF subj = _EMPTY_ THEN [json |-> "{}"] ELSE [subject |-> subj]
\* json.Marshal(&JSApiCreateConsumerRequest{Stream, Config}).
CreateConsumerJSON(stream, cfg) == [stream_name |-> stream, config |-> cfg]

\* Every call into the transport is logged with the error it returned; a
\* request is logged when it is sent, its outcome is the next step's input.
\* nc.Request(subj, data, timeout)
EvRequest(subj, body) ==
    [op |-> "REQ", subj |-> subj, reply |-> _EMPTY_, body |-> body, err |-> ErrNone]
\* nc.Publish(subj, data)
EvPublish(subj, body, err) ==
    [op |-> "PUB", subj |-> subj, reply |-> _EMPTY_, body |-> body, err |-> err]
\* nc.PublishRequest(subj, reply, data)
EvPublishRequest(subj, reply, body, err) ==
    [op |-> "PUB", subj |-> subj, reply |-> reply, body |-> body, err |-> err]
\* nc.subscribe(subj, queue, ...)
EvSubscribe(subj, queue, err) ==
    [op |-> "SUB", subj |-> subj, reply |-> _EMPTY_, body |-> [queue |-> queue], err |-> err]
\* sub.Unsubscribe()
EvUnsubscribe(subj) ==
    [op |-> "UNSUB", subj |-> subj, reply |-> _EMPTY_, body |-> NilBody, err |-> ErrNone]

\* Outcomes of a publish: sent, or refused by a closed connection.
PublishErrs == {ErrNone, ErrConnectionClosed}
\* Errors a request can end with instead of a response.
RequestErrs == {ErrNoResponders, ErrTimeout}

----------------------------------------------------------------------------
(* Subject Router *)

\* Mutant: the prefix is kept as the caller gave it.
APIPrefix_AsGiven(pre) == pre

\* What the APIPrefix(pre) option stores in js.pre.
APIPrefix(pre) ==
    LET b == Bytes(pre)
        HasSuffix == Len(b) > 0 /\ b[Len(b)] = "."
    IN  IF ~HasSuffix THEN pre \o "." ELSE pre

\* Mutant: the suffix comes first.
apiSubj_SuffixFirst(subj) == IF js.pre = _EMPTY_ THEN subj ELSE subj \o js.pre

apiSubj(subj) == IF js.pre = _EMPTY_ THEN subj ELSE js.pre \o subj

\* NewInbox(): a subject no earlier call returned.
NewInbox == "_INBOX." \o ToString(inboxes + 1)

----------------------------------------------------------------------------
(* State *)

NoJsi == [set |-> FALSE, stream |-> _EMPTY_, consumer |-> _EMPTY_,
          deliver |-> _EMPTY_, pull |-> 0]
NoSub == [made |-> FALSE, Subject |-> _EMPTY_, Queue |-> _EMPTY_, closed |-> FALSE,
          hasCb |-> FALSE, autoAck |-> FALSE, pMsgsLimit |-> 0, jsi |-> NoJsi]

NoCfg == [Durable |-> _EMPTY_, DeliverSubject |-> _EMPTY_, AckPolicy |-> ackPolicyNotSet,
          MaxAckPending |-> 0, FilterSubject |-> _EMPTY_, OptStartTime |-> "unset"]

\* The arguments of one js.subscribe call: subject, queue, callback or
\* channel, and what the options given set.
SubscribeArgs ==
    [subj : Subjects, queue : Queues, cb : BOOLEAN, pullOpt : PullOpts,
     stream : StreamNames, consumer : ConsumerNames, deliverSubject : DeliverSubjects,
     mack : BOOLEAN, durable : DurableNames, startTime : StartTimes]

\* No stream-names response received.
NoStreamNames == [kind |-> "none", err |-> ErrNone, streams |-> <<>>]

\* A call that has not started: its arguments, and its locals still zero.
IdleCall(args) ==
    [pc |-> "idle", args |-> args, subj |-> args.subj, queue |-> args.queue,
     cb |-> args.cb,
     o |-> [stream |-> _EMPTY_, consumer |-> _EMPTY_, pull |-> 0, mack |-> FALSE],
     optErr |-> FALSE, cfg |-> NoCfg, path |-> "none", stream |-> _EMPTY_,
     deliver |-> _EMPTY_, ccfg |-> NoCfg, slr |-> NoStreamNames,
     reqErr |-> ErrNone, err |-> ErrNone, ret |-> FALSE]

\* No js.subscribe call: the application publishes, manages streams, or
\* subscribes outside JetStream.
NoCall ==
    [IdleCall(CHOOSE args \in SubscribeArgs : TRUE) EXCEPT !.pc = "none"]

\* What a request of a context call came back with: a transport error
\* ("err"), a body that does not decode ("garbage"), or a decoded body
\* ("json") with or without an error payload (code and description) and,
\* in a publish response, with or without the PubAck fields.
NoResp == [kind |-> "none", err |-> ErrNone, hasError |-> FALSE, code |-> 0,
           description |-> _EMPTY_, hasAck |-> FALSE, stream |-> _EMPTY_, seq |-> 0,
           duplicate |-> FALSE]
NoPubAck == [Stream |-> _EMPTY_, Sequence |-> 0, Duplicate |-> FALSE]
NoApi == [name |-> "none", args |-> [none |-> TRUE], resp |-> NoResp, err |-> ErrNone,
          ret |-> FALSE, pa |-> NoPubAck, sent |-> <<>>]

\* No message handed to the callback yet.
NoDelivery == [stage |-> "none", Reply |-> _EMPTY_, ackCalls |-> 0, err |-> ErrNone,
               sent |-> <<>>, seq |-> 0]

\* No MsgMetaData returned.
NoMeta == [Consumer |-> 0, Stream |-> 0, Delivered |-> 0, Pending |-> 0, Timestamp |-> 0]

NoOp == [name |-> "none", Reply |-> _EMPTY_, bound |-> FALSE, jsi |-> NoJsi,
         Subject |-> _EMPTY_, err |-> ErrNone, sent |-> <<>>, meta |-> NoMeta]

Init ==
    /\ js \in [pre : Prefixes, direct : BOOLEAN]
    /\ call \in {IdleCall(args) : args \in SubscribeArgs} \cup {NoCall}
    /\ sub = NoSub
    /\ net = <<>>
    /\ inboxes = 0
    /\ op = NoOp
    /\ dlv = NoDelivery
    /\ api = NoApi
    /\ acc = {}

----------------------------------------------------------------------------
(* Accesses of the binding fields *)

\* sub.mu.Lock() ... sub.mu.Unlock() around a read of a binding field.
LockedRead(by, field) == [by |-> by, field |-> field, write |-> FALSE, locked |-> TRUE]

\* An assignment to a binding field with no sub.mu.Lock() before it.
UnlockedWrite(by, field) == [by |-> by, field |-> field, write |-> TRUE, locked |-> FALSE]

\* The assignments at the end of js.subscribe: stream, consumer and deliver
\* on both branches, pull for a pull-mode bind; sub.mu is not taken.
subscribeAccesses(o) ==
    {UnlockedWrite("subscribe", f) : f \in {"stream", "consumer", "deliver"}}
    \cup (IF o.pull > 0 THEN {UnlockedWrite("subscribe", "pull")} ELSE {})

\* Subscription.Poll: the condition reads deliver and pull as far as the ||
\* goes, then batch, stream and consumer are copied, all under sub.mu.
PollAccesses(s) ==
    IF ~s.jsi.set THEN {}
    ELSE IF s.jsi.deliver # _EMPTY_ THEN {LockedRead("Poll", "deliver")}
    ELSE IF s.jsi.pull = 0
      THEN {LockedRead("Poll", "deliver"), LockedRead("Poll", "pull")}
    ELSE {LockedRead("Poll", f) : f \in {"deliver", "pull", "stream", "consumer"}}

\* Subscription.ConsumerInfo: consumer is read, then stream and consumer are
\* copied, all under sub.mu.
ConsumerInfoAccesses(s) ==
    IF ~s.jsi.set THEN {}
    ELSE IF s.jsi.consumer = _EMPTY_ THEN {LockedRead("ConsumerInfo", "consumer")}
    ELSE {LockedRead("ConsumerInfo", f) : f \in {"stream", "consumer"}}

\* Msg.checkReply: pull is read under sub.mu once the message has a reply
\* subject, a subscription, and the subscription a binding.
checkReplyAccesses(m, s) ==
    IF m.Reply = _EMPTY_ \/ ~m.bound \/ ~s.jsi.set THEN {}
    ELSE {LockedRead("checkReply", "pull")}

----------------------------------------------------------------------------
(* Pull Driver *)

\* Subscription.Poll: what it returns and what it hands to the transport;
\* pubErr is what nc.PublishRequest returns.
\* Mutant: Poll is refused only when all three conditions hold.
Poll_AllConditions(s, pubErr) ==
    IF ~s.jsi.set /\ s.jsi.deliver # _EMPTY_ /\ s.jsi.pull = 0
    THEN [err |-> ErrTypeSubscription, sent |-> <<>>]
    ELSE [err |-> pubErr,
          sent |-> <<EvPublishRequest(
                       apiSubj(JSApiRequestNextT(s.jsi.stream, s.jsi.consumer)),
                       s.Subject, NextRequestJSON(s.jsi.pull), pubErr)>>]

Poll(s, pubErr) ==
    IF ~s.jsi.set \/ s.jsi.deliver # _EMPTY_ \/ s.jsi.pull = 0
    THEN [err |-> ErrTypeSubscription, sent |-> <<>>]
    ELSE [err |-> pubErr,
          sent |-> <<EvPublishRequest(
                       apiSubj(JSApiRequestNextT(s.jsi.stream, s.jsi.consumer)),
                       s.Subject, NextRequestJSON(s.jsi.pull), pubErr)>>]

----------------------------------------------------------------------------
(* Consumer Binder: js.subscribe *)

\* Mutant: a batch size of 1 is not pull mode.
isPullMode_AboveOne(o) == o.pull > 1

isPullMode(o) == o.pull > 0

\* Mutant: either name alone is taken for an attach.
shouldAttach_EitherName(o, cfg) ==
    (o.stream # _EMPTY_ \/ o.consumer # _EMPTY_) \/ cfg.DeliverSubject # _EMPTY_

\* If we are attaching to an existing consumer.
shouldAttach(o, cfg) ==
    (o.stream # _EMPTY_ /\ o.consumer # _EMPTY_) \/ cfg.DeliverSubject # _EMPTY_

\* Mutant: the negation is lost.
shouldCreate_NotNegated(o, cfg) ==
    (o.stream # _EMPTY_ /\ o.consumer # _EMPTY_) \/ cfg.DeliverSubject # _EMPTY_

shouldCreate(o, cfg) == ~shouldAttach(o, cfg)

\* return nil, err
ReturnErr(c, e, s, n) ==
    /\ call' = [c EXCEPT !.pc = "done", !.err = e, !.ret = FALSE]
    /\ sub' = s
    /\ net' = n
    /\ acc' = acc

\* Mutant: the local subscription is made on the deliver subject of the
\* caller's options.
NewSubscription_OnCallerDeliver(c) ==
    [made |-> TRUE, Subject |-> c.cfg.DeliverSubject, Queue |-> c.queue,
     closed |-> FALSE, hasCb |-> c.cb, autoAck |-> c.cb /\ ~c.o.mack,
     pMsgsLimit |-> DefaultSubPendingMsgsLimit,
     jsi |-> [NoJsi EXCEPT !.set = TRUE]]

\* js.nc.subscribe(deliver, queue, cb, ch, cb == nil, &jsSub{js: js}): the
\* Subscription it returns; the callback is wrapped with m.Ack() unless manual ack.
NewSubscription(c) ==
    [made |-> TRUE, Subject |-> c.deliver, Queue |-> c.queue, closed |-> FALSE,
     hasCb |-> c.cb, autoAck |-> c.cb /\ ~c.o.mack,
     pMsgsLimit |-> DefaultSubPendingMsgsLimit,
     jsi |-> [NoJsi EXCEPT !.set = TRUE]]

\* Mutant: the subject of the local subscription is stored as deliver subject.
BindAttached_LocalDeliver(c, s) ==
    [s EXCEPT !.jsi.stream = c.o.stream,
              !.jsi.consumer = c.o.consumer,
              !.jsi.deliver = c.deliver]

\* The binding stored when no consumer was created.
BindAttached(c, s) ==
    [s EXCEPT !.jsi.stream = c.o.stream,
              !.jsi.consumer = c.o.consumer,
              !.jsi.deliver = IF js.direct THEN c.cfg.DeliverSubject
                              ELSE c.ccfg.DeliverSubject]

\* The binding stored from the create-consumer response.
BindCreated(s, info) ==
    [s EXCEPT !.jsi.stream = info.Stream,
              !.jsi.consumer = info.Name,
              !.jsi.deliver = info.Config.DeliverSubject]

\* If we are pull based fire off the first request, then return sub, nil.
\* The error Poll returns is dropped.
FinishSubscribe(c, s, n) ==
    \E pubErr \in PublishErrs :
        LET s2 == IF isPullMode(c.o) THEN [s EXCEPT !.jsi.pull = c.o.pull] ELSE s
            n2 == IF isPullMode(c.o) THEN n \o Poll(s2, pubErr).sent ELSE n
        IN  /\ call' = [c EXCEPT !.pc = "done", !.err = ErrNone, !.ret = TRUE]
            /\ sub' = s2
            /\ net' = n2
            /\ acc' = acc \cup subscribeAccesses(c.o)
                          \cup (IF isPullMode(c.o) THEN PollAccesses(s2) ELSE {})

\* Outcomes of js.nc.subscribe: a subscription, or an error.
SubscribeErrs == {ErrNone, ErrConnectionClosed}

\* The local subscription on the delivery subject, then the attach branch
\* of the binding and the first poll.
SubscribeAttached(c, n) ==
    \E subErr \in SubscribeErrs :
        IF subErr # ErrNone
        THEN ReturnErr(c, subErr, NoSub, Append(n, EvSubscribe(c.deliver, c.queue, subErr)))
        ELSE FinishSubscribe(c, BindAttached(c, NewSubscription(c)),
                             Append(n, EvSubscribe(c.deliver, c.queue, ErrNone)))

\* sub.Unsubscribe()
Unsubscribe(s) == [s EXCEPT !.closed = TRUE]

\* A request that failed: no responders reads as JetStream not enabled.
RequestErr(err) == IF err = ErrNoResponders THEN ErrJetStreamNotEnabled ELSE err

\* What a request can come back with: a transport error ("err"), a body
\* that does not decode ("garbage"), a body with an API error ("apierr"), or
\* a proper body ("ok").
\* Responses to CONSUMER.INFO: the existing consumer's configuration.
ConsumerInfoResponses ==
    [kind : {"err"}, err : RequestErrs, filter : {_EMPTY_}, deliver : {_EMPTY_}]
    \cup [kind : {"garbage", "apierr"}, err : {ErrNone}, filter : {_EMPTY_}, deliver : {_EMPTY_}]
    \cup [kind : {"ok"}, err : {ErrNone}, filter : FilterSubjects,
          deliver : DeliverSubjects]

\* js.getConsumerInfo: the error and the ConsumerInfo.Config it returns.
getConsumerInfo(resp) ==
    CASE resp.kind = "err" -> [err |-> RequestErr(resp.err), Config |-> NoCfg]
      [] resp.kind = "garbage" -> [err |-> ErrJSONUnmarshal, Config |-> NoCfg]
      [] resp.kind = "apierr" -> [err |-> ErrServerDescription, Config |-> NoCfg]
      [] OTHER -> [err |-> ErrNone,
                   Config |-> [NoCfg EXCEPT !.FilterSubject = resp.filter,
                                            !.DeliverSubject = resp.deliver]]

\* Responses to STREAM.NAMES.
StreamNamesResponses ==
    [kind : {"err"}, err : RequestErrs, streams : {<<>>}]
    \cup [kind : {"garbage"}, err : {ErrNone}, streams : {<<>>}]
    \cup [kind : {"apierr", "ok"}, err : {ErrNone}, streams : {<<>>, <<"S">>, <<"S", "T">>}]

\* Mutant: the first of several stream names is taken.
lookupStreamBySubject_FirstOfMany(resp) ==
    CASE resp.kind = "err" -> [stream |-> _EMPTY_, err |-> RequestErr(resp.err)]
      [] resp.kind = "garbage" -> [stream |-> _EMPTY_, err |-> ErrJSONUnmarshal]
      [] resp.kind = "apierr" \/ Len(resp.streams) < 1 ->
            [stream |-> _EMPTY_, err |-> ErrNoMatchingStream]
      [] OTHER -> [stream |-> resp.streams[1], err |-> ErrNone]

\* js.lookupStreamBySubject: the stream name and the error it returns.
lookupStreamBySubject(resp) ==
    CASE resp.kind = "err" -> [stream |-> _EMPTY_, err |-> RequestErr(resp.err)]
      [] resp.kind = "garbage" -> [stream |-> _EMPTY_, err |-> ErrJSONUnmarshal]
      [] resp.kind = "apierr" \/ Len(resp.streams) # 1 ->
            [stream |-> _EMPTY_, err |-> ErrNoMatchingStream]
      [] OTHER -> [stream |-> resp.streams[1], err |-> ErrNone]

\* Responses to the create-consumer request.
CreateResponses ==
    [kind : {"err"}, err : RequestErrs] \cup [kind : {"garbage", "apierr", "ok"}, err : {ErrNone}]

\* The ConsumerInfo the server reports for a consumer it created: the stream,
\* the durable name or a generated one, and the configuration echoed back.
ServerConsumerInfo(stream, cfg) ==
    [Stream |-> stream,
     Name |-> IF cfg.Durable # _EMPTY_ THEN cfg.Durable ELSE "ephemeral1",
     Config |-> cfg]

\* json.Marshal of the create request fails when a field cannot be encoded.
MarshalFails(cfg) == cfg.OptStartTime = "year10000"

\* The subject of the create-consumer request.
ccSubj(stream, cfg) ==
    IF cfg.Durable # _EMPTY_ THEN JSApiDurableCreateT(stream, cfg.Durable)
    ELSE JSApiConsumerCreateT(stream)

\* Mutant: MaxAckPending is left as the caller gave it.
CreateConfig_NoMaxAckPending(cfg, s) ==
    IF cfg.AckPolicy = ackPolicyNotSet
    THEN [cfg EXCEPT !.AckPolicy = AckExplicit] ELSE cfg

\* The configuration sent in the create request: ack policy defaulted to
\* explicit, MaxAckPending defaulted to the subscription's pending limit.
CreateConfig(cfg, s) ==
    LET c1 == IF cfg.AckPolicy = ackPolicyNotSet
              THEN [cfg EXCEPT !.AckPolicy = AckExplicit] ELSE cfg
    IN  IF c1.MaxAckPending = 0 /\ c1.AckPolicy # AckNone
        THEN [c1 EXCEPT !.MaxAckPending = s.pMsgsLimit] ELSE c1

\* Mutant: the error of the local subscription is not looked at.
SubscribeCreated_IgnoreSubErr(c, n, subErr) ==
    LET n1 == Append(n, EvSubscribe(c.deliver, c.queue, subErr))
        s == IF subErr # ErrNone THEN NoSub ELSE NewSubscription(c)
        cfg2 == CreateConfig(c.cfg, NewSubscription(c))
        c2 == [c EXCEPT !.cfg = cfg2]
    IN  IF MarshalFails(cfg2)
        THEN ReturnErr(c2, ErrJSONMarshal, s, n1)
        ELSE /\ call' = [c2 EXCEPT !.pc = "create"]
             /\ sub' = s
             /\ net' = Append(n1, EvRequest(apiSubj(ccSubj(c.stream, cfg2)),
                                            CreateConsumerJSON(c.stream, cfg2)))
             /\ acc' = acc

\* The local subscription on the delivery subject, then the create branch up
\* to its request: defaults, encoding, the create-consumer request.
SubscribeCreated(c, n, subErr) ==
    LET n1 == Append(n, EvSubscribe(c.deliver, c.queue, subErr))
        s == NewSubscription(c)
        cfg2 == CreateConfig(c.cfg, s)
        c2 == [c EXCEPT !.cfg = cfg2]
    IN  IF subErr # ErrNone
        THEN ReturnErr(c, subErr, NoSub, n1)
        ELSE IF MarshalFails(cfg2)
        THEN ReturnErr(c2, ErrJSONMarshal, s, n1)
        ELSE /\ call' = [c2 EXCEPT !.pc = "create"]
             /\ sub' = s
             /\ net' = Append(n1, EvRequest(apiSubj(ccSubj(c.stream, cfg2)),
                                            CreateConsumerJSON(c.stream, cfg2)))
             /\ acc' = acc

\* Mutant: the comparison is inverted.
SubjectMismatch_Inverted(ccfg, subj) ==
    ccfg.FilterSubject # _EMPTY_ /\ subj = ccfg.FilterSubject

\* Make sure this new subject matches or is a subset.
SubjectMismatch(ccfg, subj) ==
    ccfg.FilterSubject # _EMPTY_ /\ subj # ccfg.FilterSubject

----------------------------------------------------------------------------
(* js.subscribe, one action per stretch of code between two waits *)

\* js.subscribe from its entry to its first request (or, in direct mode,
\* to its return): options, pull mode, attach or create, direct mode.
Subscribe ==
    /\ call.pc = "idle"
    /\ LET a == call.args
           pullOpt == a.pullOpt
           cb == call.cb
           subj == call.subj
           o == [stream |-> a.stream, consumer |-> a.consumer,
                 pull |-> pullOpt.batch, mack |-> a.mack]
           cfg == [NoCfg EXCEPT !.Durable = a.durable,
                                !.DeliverSubject = a.deliverSubject,
                                !.OptStartTime = a.startTime]
           c == [call EXCEPT !.pc = "run", !.o = o, !.cfg = cfg]
           cp == [c EXCEPT !.path = IF shouldAttach(o, cfg) THEN "attach" ELSE "create"]
       IN  IF pullOpt.given /\ pullOpt.batch = 0
           THEN /\ ReturnErr([c EXCEPT !.optErr = TRUE], ErrBatchSize, NoSub, <<>>)
                /\ UNCHANGED inboxes
           ELSE IF cb /\ isPullMode(o)
           THEN /\ ReturnErr(c, ErrPullModeNotAllowed, NoSub, <<>>)
                /\ UNCHANGED inboxes
           ELSE IF js.direct /\ shouldCreate(o, cfg)
           THEN /\ ReturnErr(cp, ErrDirectModeRequired, NoSub, <<>>)
                /\ UNCHANGED inboxes
           ELSE IF js.direct
           THEN IF cfg.DeliverSubject # _EMPTY_
                THEN /\ SubscribeAttached([cp EXCEPT !.deliver = cfg.DeliverSubject], <<>>)
                     /\ UNCHANGED inboxes
                ELSE /\ SubscribeAttached([cp EXCEPT !.deliver = NewInbox], <<>>)
                     /\ inboxes' = inboxes + 1
           ELSE IF shouldAttach(o, cfg)
           THEN /\ call' = [cp EXCEPT !.pc = "info"]
                /\ net' = <<EvRequest(apiSubj(JSApiConsumerInfoT(o.stream, o.consumer)),
                                      NilBody)>>
                /\ sub' = NoSub
                /\ UNCHANGED <<inboxes, acc>>
           ELSE /\ call' = [cp EXCEPT !.pc = "lookup"]
                /\ net' = <<EvRequest(apiSubj(JSApiStreams), StreamRequestJSON(subj))>>
                /\ sub' = NoSub
                /\ UNCHANGED <<inboxes, acc>>
    /\ UNCHANGED <<js, op, api, dlv>>

\* The attach path from the consumer-info response to the return.
RecvConsumerInfo(resp) ==
    /\ call.pc = "info"
    /\ LET info == getConsumerInfo(resp)
           c == [call EXCEPT !.ccfg = info.Config, !.reqErr = resp.err]
       IN  IF info.err # ErrNone
           THEN /\ ReturnErr([call EXCEPT !.reqErr = resp.err], info.err, NoSub, net)
                /\ UNCHANGED inboxes
           ELSE IF SubjectMismatch(c.ccfg, c.subj)
           THEN /\ ReturnErr(c, ErrSubjectMismatch, NoSub, net)
                /\ UNCHANGED inboxes
           ELSE IF c.ccfg.DeliverSubject # _EMPTY_
           THEN /\ SubscribeAttached([c EXCEPT !.deliver = c.ccfg.DeliverSubject], net)
                /\ UNCHANGED inboxes
           ELSE /\ SubscribeAttached([c EXCEPT !.deliver = NewInbox], net)
                /\ inboxes' = inboxes + 1
    /\ UNCHANGED <<js, op, api, dlv>>

\* Mutant: the inbox is the deliver subject of the request in pull mode too.
RecvStreamNames_DeliverInPullMode(resp) ==
    /\ call.pc = "lookup"
    /\ LET r == lookupStreamBySubject(resp)
           d == NewInbox
           cfg1 == [call.cfg EXCEPT !.DeliverSubject = d,
                                    !.FilterSubject = call.subj]
           c == [call EXCEPT !.stream = r.stream, !.deliver = d, !.cfg = cfg1,
                             !.slr = resp, !.reqErr = resp.err]
       IN  IF r.err # ErrNone
           THEN /\ ReturnErr([call EXCEPT !.slr = resp, !.reqErr = resp.err],
                             r.err, NoSub, net)
                /\ UNCHANGED inboxes
           ELSE /\ inboxes' = inboxes + 1
                /\ \E subErr \in SubscribeErrs : SubscribeCreated(c, net, subErr)
    /\ UNCHANGED <<js, op, api, dlv>>

\* The create path from the stream-lookup response to the create-consumer
\* request: inbox, filter, local subscription, defaults, encoding.
RecvStreamNames(resp) ==
    /\ call.pc = "lookup"
    /\ LET r == lookupStreamBySubject(resp)
           d == NewInbox
           cfg1 == [call.cfg EXCEPT
                      !.DeliverSubject = IF isPullMode(call.o) THEN @ ELSE d,
                      !.FilterSubject = call.subj]
           c == [call EXCEPT !.stream = r.stream, !.deliver = d, !.cfg = cfg1,
                             !.slr = resp, !.reqErr = resp.err]
       IN  IF r.err # ErrNone
           THEN /\ ReturnErr([call EXCEPT !.slr = resp, !.reqErr = resp.err],
                             r.err, NoSub, net)
                /\ UNCHANGED inboxes
           ELSE /\ inboxes' = inboxes + 1
                /\ \E subErr \in SubscribeErrs : SubscribeCreated(c, net, subErr)
    /\ UNCHANGED <<js, op, api, dlv>>

\* Mutant: a create-consumer request that timed out is sent once more.
RecvCreate_RetryOnTimeout(resp) ==
    /\ call.pc = "create"
    /\ LET closed == Unsubscribe(sub)
           n1 == Append(net, EvUnsubscribe(sub.Subject))
           c == [call EXCEPT !.reqErr = resp.err]
           first == \A i \in 1..Len(net) :
                      "stream_name" \in DOMAIN net[i].body => i = Len(net)
       IN  CASE resp.kind = "err" /\ resp.err = ErrTimeout /\ first ->
                  /\ call' = c
                  /\ net' = Append(net, net[Len(net)])
                  /\ sub' = sub
                  /\ acc' = acc
             [] resp.kind = "err" -> ReturnErr(c, RequestErr(resp.err), closed, n1)
             [] resp.kind = "garbage" -> ReturnErr(c, ErrJSONUnmarshal, closed, n1)
             [] resp.kind = "apierr" -> ReturnErr(c, ErrServerDescription, closed, n1)
             [] OTHER ->
                  FinishSubscribe(c,
                      BindCreated(sub, ServerConsumerInfo(call.stream, call.cfg)), net)
    /\ UNCHANGED <<js, op, api, dlv, inboxes>>

\* The create path from the create-consumer response to the return.
RecvCreate(resp) ==
    /\ call.pc = "create"
    /\ LET closed == Unsubscribe(sub)
           n1 == Append(net, EvUnsubscribe(sub.Subject))
           c == [call EXCEPT !.reqErr = resp.err]
       IN  CASE resp.kind = "err" -> ReturnErr(c, RequestErr(resp.err), closed, n1)
             [] resp.kind = "garbage" -> ReturnErr(c, ErrJSONUnmarshal, closed, n1)
             [] resp.kind = "apierr" -> ReturnErr(c, ErrServerDescription, closed, n1)
             [] OTHER ->
                  FinishSubscribe(c,
                      BindCreated(sub, ServerConsumerInfo(call.stream, call.cfg)), net)
    /\ UNCHANGED <<js, op, api, dlv, inboxes>>

\* Conn.Subscribe / Conn.SubscribeSync outside JetStream: a subscription
\* with no JetStream binding (jsi is nil).
PlainSubscribe ==
    /\ call.pc = "none"
    /\ ~sub.made
    /\ api.name = "none"
    /\ \E subject \in Subjects, queue \in Queues, cb \in BOOLEAN :
         /\ sub' = [NoSub EXCEPT !.made = TRUE, !.Subject = subject, !.Queue = queue,
                                 !.hasCb = cb,
                                 !.pMsgsLimit = DefaultSubPendingMsgsLimit]
         /\ net' = <<EvSubscribe(subject, queue, ErrNone)>>
    /\ UNCHANGED <<js, call, inboxes, op, api, dlv, acc>>

\* A subscription the application holds: the one js.subscribe returned, or
\* one made outside JetStream.
HasSubscription ==
    /\ call.pc \in {"done", "none"}
    /\ sub.made /\ ~sub.closed

----------------------------------------------------------------------------
(* Ack Codec *)

\* A delivered message: its reply subject, and whether it carries its
\* subscription (m.Sub).
Msgs == [Reply : ReplySubjects, bound : BOOLEAN]

\* Outcomes of nc.Request on a reply subject: a response, or an error.
AckRequestErrs == {ErrNone} \cup RequestErrs

\* Mutant: a batch size of 0 counts as pull mode.
checkReply_PullAtZero(m, s) ==
    IF m.Reply = _EMPTY_ THEN [err |-> ErrMsgNoReply, isPullMode |-> FALSE]
    ELSE IF ~m.bound THEN [err |-> ErrMsgNotBound, isPullMode |-> FALSE]
    ELSE IF ~s.jsi.set THEN [err |-> ErrNotJSMessage, isPullMode |-> FALSE]
    ELSE [err |-> ErrNone, isPullMode |-> s.jsi.pull >= 0]

\* Mutant: pull mode is read from the deliver subject instead of the batch size.
checkReply_PullByDeliver(m, s) ==
    IF m.Reply = _EMPTY_ THEN [err |-> ErrMsgNoReply, isPullMode |-> FALSE]
    ELSE IF ~m.bound THEN [err |-> ErrMsgNotBound, isPullMode |-> FALSE]
    ELSE IF ~s.jsi.set THEN [err |-> ErrNotJSMessage, isPullMode |-> FALSE]
    ELSE [err |-> ErrNone, isPullMode |-> s.jsi.deliver = _EMPTY_]

\* Mutant: a subscription without JetStream binding passes the check.
checkReply_NoBindingCheck(m, s) ==
    IF m.Reply = _EMPTY_ THEN [err |-> ErrMsgNoReply, isPullMode |-> FALSE]
    ELSE IF ~m.bound THEN [err |-> ErrMsgNotBound, isPullMode |-> FALSE]
    ELSE [err |-> ErrNone, isPullMode |-> s.jsi.pull > 0]

\* Msg.checkReply on message m of subscription s.
checkReply(m, s) ==
    IF m.Reply = _EMPTY_ THEN [err |-> ErrMsgNoReply, isPullMode |-> FALSE]
    ELSE IF ~m.bound THEN [err |-> ErrMsgNotBound, isPullMode |-> FALSE]
    ELSE IF ~s.jsi.set THEN [err |-> ErrNotJSMessage, isPullMode |-> FALSE]
    ELSE [err |-> ErrNone, isPullMode |-> s.jsi.pull > 0]

\* Mutant: in pull mode the synchronous wait is made whatever the publish of
\* the next-message request returned.
ackReply_SyncAfterFailedPublish(m, s, ackType, sync, pubErr, reqErr) ==
    LET chk == checkReply(m, s)
        next == IF ackType = AckAck
                  THEN <<EvPublishRequest(m.Reply, s.Subject, RawBody(AckNext), pubErr)>>
                ELSE IF ackType = AckNak \/ ackType = AckTerm
                  THEN <<EvPublishRequest(m.Reply, s.Subject, RawBody(AckNextOne), pubErr)>>
                ELSE <<>>
        nextErr == IF next = <<>> THEN ErrNone ELSE pubErr
    IN  IF chk.err # ErrNone THEN [err |-> chk.err, sent |-> <<>>]
        ELSE IF chk.isPullMode
        THEN IF sync
             THEN [err |-> reqErr,
                   sent |-> Append(next, [EvRequest(m.Reply, NilBody) EXCEPT !.err = reqErr])]
             ELSE [err |-> nextErr, sent |-> next]
        ELSE IF sync
        THEN [err |-> reqErr,
              sent |-> <<[EvRequest(m.Reply, RawBody(ackType)) EXCEPT !.err = reqErr]>>]
        ELSE [err |-> pubErr, sent |-> <<EvPublish(m.Reply, RawBody(ackType), pubErr)>>]

\* Msg.ackReply: the error it returns and what it hands to the transport;
\* pubErr and reqErr are what the publish and the request return.
ackReply(m, s, ackType, sync, pubErr, reqErr) ==
    LET chk == checkReply(m, s)
        next == IF ackType = AckAck
                  THEN <<EvPublishRequest(m.Reply, s.Subject, RawBody(AckNext), pubErr)>>
                ELSE IF ackType = AckNak \/ ackType = AckTerm
                  THEN <<EvPublishRequest(m.Reply, s.Subject, RawBody(AckNextOne), pubErr)>>
                ELSE <<>>
        nextErr == IF next = <<>> THEN ErrNone ELSE pubErr
    IN  IF chk.err # ErrNone THEN [err |-> chk.err, sent |-> <<>>]
        ELSE IF chk.isPullMode
        THEN IF sync /\ nextErr = ErrNone
             THEN [err |-> reqErr,
                   sent |-> Append(next, [EvRequest(m.Reply, NilBody) EXCEPT !.err = reqErr])]
             ELSE [err |-> nextErr, sent |-> next]
        ELSE IF sync
        THEN [err |-> reqErr,
              sent |-> <<[EvRequest(m.Reply, RawBody(ackType)) EXCEPT !.err = reqErr]>>]
        ELSE [err |-> pubErr, sent |-> <<EvPublish(m.Reply, RawBody(ackType), pubErr)>>]

\* One acknowledgment call on a message delivered to the subscription that
\* subscribe returned. The call changes nothing but op, so a behaviour
\* follows one call: any further call would start from the same state.
AckOp(name, ackType, sync) ==
    /\ HasSubscription
    /\ op = NoOp /\ dlv = NoDelivery
    /\ \E m \in Msgs, pubErr \in PublishErrs,
          reqErr \in (IF sync THEN AckRequestErrs ELSE {ErrNone}) :
         LET r == ackReply(m, sub, ackType, sync, pubErr, reqErr)
         IN  /\ op' = [name |-> name, Reply |-> m.Reply, bound |-> m.bound,
                       jsi |-> sub.jsi, Subject |-> sub.Subject, err |-> r.err,
                       sent |-> r.sent, meta |-> NoMeta]
             /\ acc' = acc \cup checkReplyAccesses(m, sub)
    /\ UNCHANGED <<js, call, sub, net, inboxes, api, dlv>>

Ack == AckOp("Ack", AckAck, FALSE)
AckSync == AckOp("AckSync", AckAck, TRUE)
Nak == AckOp("Nak", AckNak, FALSE)
Term == AckOp("Term", AckTerm, FALSE)
InProgress == AckOp("InProgress", AckProgress, FALSE)

\* Mutant: the installed callback acknowledges before it runs the user's
\* callback.
AutoAck_BeforeCallback(s, m, stage, pubErr) ==
    IF s.autoAck /\ stage = "before"
      THEN LET r == ackReply(m, s, AckAck, FALSE, pubErr, ErrNone)
           IN  [calls |-> 1, err |-> r.err, sent |-> r.sent]
    ELSE [calls |-> 0, err |-> ErrNone, sent |-> <<>>]

\* Mutant: the installed callback hands the acknowledgment to another
\* execution context and returns without having made it.
AutoAck_InOtherContext(s, m, stage, pubErr) ==
    [calls |-> 0, err |-> ErrNone, sent |-> <<>>]

\* The callback js.subscribe installs when it is given a callback and no
\* ManualAck: func(m *Msg) { ocb(m); m.Ack() }. What it does besides running
\* ocb, before ocb is called (stage "before") and once ocb has returned
\* (stage "after"): the calls of m.Ack, the error of the last one (which is
\* dropped) and what they hand to the transport.
AutoAck(s, m, stage, pubErr) ==
    IF s.autoAck /\ stage = "after"
      THEN LET r == ackReply(m, s, AckAck, FALSE, pubErr, ErrNone)
           IN  [calls |-> 1, err |-> r.err, sent |-> r.sent]
    ELSE [calls |-> 0, err |-> ErrNone, sent |-> <<>>]

\* The connection hands a message of the subscription to its callback, which
\* runs up to the point where the user's callback is running. The next
\* message is handed over once the callback has returned from the one before.
Deliver ==
    /\ HasSubscription
    /\ sub.hasCb
    /\ op = NoOp /\ dlv.stage \in {"none", "returned"}
    /\ dlv.seq < MaxDeliveries
    /\ \E reply \in ReplySubjects, pubErr \in PublishErrs :
         LET a == AutoAck(sub, [Reply |-> reply, bound |-> TRUE], "before", pubErr)
             m == [Reply |-> reply, bound |-> TRUE]
         IN  /\ dlv' = [stage |-> "callback", Reply |-> reply, ackCalls |-> a.calls,
                        err |-> a.err, sent |-> a.sent, seq |-> dlv.seq + 1]
             /\ acc' = IF a.calls > 0 THEN acc \cup checkReplyAccesses(m, sub) ELSE acc
    /\ UNCHANGED <<js, call, sub, net, inboxes, op, api>>

\* The user's callback returns, and the installed callback runs to its end.
CallbackReturn ==
    /\ dlv.stage = "callback"
    /\ \E pubErr \in PublishErrs :
         LET a == AutoAck(sub, [Reply |-> dlv.Reply, bound |-> TRUE], "after", pubErr)
             m == [Reply |-> dlv.Reply, bound |-> TRUE]
         IN  /\ dlv' = [dlv EXCEPT !.stage = "returned",
                                   !.ackCalls = dlv.ackCalls + a.calls,
                                   !.err = IF a.calls > 0 THEN a.err ELSE dlv.err,
                                   !.sent = dlv.sent \o a.sent]
             /\ acc' = IF a.calls > 0 THEN acc \cup checkReplyAccesses(m, sub) ELSE acc
    /\ UNCHANGED <<js, call, sub, net, inboxes, op, api>>

\* Mutant: a Poll that was sent uses up the batch size of the binding.
PollCall_ClearsBatch ==
    /\ HasSubscription
    /\ op = NoOp /\ dlv = NoDelivery
    /\ \E pubErr \in PublishErrs :
         LET r == Poll(sub, pubErr)
         IN  /\ op' = [NoOp EXCEPT !.name = "Poll", !.jsi = sub.jsi,
                                   !.Subject = sub.Subject, !.err = r.err,
                                   !.sent = r.sent]
             /\ sub' = IF r.sent # <<>> THEN [sub EXCEPT !.jsi.pull = 0] ELSE sub
    /\ acc' = acc \cup PollAccesses(sub)
    /\ UNCHANGED <<js, call, net, inboxes, api, dlv>>

\* One Poll call by the application on the subscription it holds.
PollCall ==
    /\ HasSubscription
    /\ op = NoOp /\ dlv = NoDelivery
    /\ \E pubErr \in PublishErrs :
         LET r == Poll(sub, pubErr)
         IN  op' = [NoOp EXCEPT !.name = "Poll", !.jsi = sub.jsi,
                                !.Subject = sub.Subject, !.err = r.err,
                                !.sent = r.sent]
    /\ acc' = acc \cup PollAccesses(sub)
    /\ UNCHANGED <<js, call, sub, net, inboxes, api, dlv>>

\* Subscription.ConsumerInfo on subscription s: the error it returns and what
\* it hands to the transport. A subscription without JetStream binding has a
\* nil jsi, and reading its consumer name panics.
ConsumerInfo(s, resp) ==
    IF ~s.jsi.set THEN [err |-> ErrPanicNilPointer, sent |-> <<>>]
    ELSE IF s.jsi.consumer = _EMPTY_ THEN [err |-> ErrTypeSubscription, sent |-> <<>>]
    ELSE [err |-> getConsumerInfo(resp).err,
          sent |-> <<[EvRequest(apiSubj(JSApiConsumerInfoT(s.jsi.stream, s.jsi.consumer)),
                                NilBody) EXCEPT !.err = resp.err]>>]

\* One ConsumerInfo call by the application on the subscription it holds.
ConsumerInfoCall ==
    /\ HasSubscription
    /\ op = NoOp /\ dlv = NoDelivery
    /\ \E resp \in ConsumerInfoResponses :
         LET r == ConsumerInfo(sub, resp)
         IN  op' = [NoOp EXCEPT !.name = "ConsumerInfo", !.jsi = sub.jsi,
                                !.Subject = sub.Subject, !.err = r.err,
                                !.sent = r.sent]
    /\ acc' = acc \cup ConsumerInfoAccesses(sub)
    /\ UNCHANGED <<js, call, sub, net, inboxes, api, dlv>>

\* The tokens of a subject: the loop of Msg.MetaData that cuts the subject at
\* every '.', i the index under inspection and start the current token's start.
RECURSIVE tokenize(_, _, _, _)
tokenize(subject, i, start, tokens) ==
    IF i > Len(subject)
      THEN Append(tokens, SubSeq(subject, start, Len(subject)))
    ELSE IF subject[i] = "."
      THEN tokenize(subject, i + 1, i + 1, Append(tokens, SubSeq(subject, start, i - 1)))
    ELSE tokenize(subject, i + 1, start, tokens)

expectedTokens == 9

\* Ascii numbers 0-9
asciiZero == 48
asciiNine == 57

\* parseNum: the loop over the bytes of d from byte i on, n the number so far.
RECURSIVE parseNumFrom(_, _, _)
parseNumFrom(d, i, n) ==
    IF i > Len(d) THEN n
    ELSE IF Ascii(d[i]) < asciiZero \/ Ascii(d[i]) > asciiNine THEN -1
    ELSE parseNumFrom(d, i + 1, Int64(n * 10 + (Ascii(d[i]) - asciiZero)))

\* Quick parser for positive numbers in ack reply encoding.
parseNum(d) == IF Len(d) = 0 THEN -1 ELSE parseNumFrom(d, 1, 0)

\* The MsgMetaData built from the tokens of a reply subject; the timestamp
\* as its nanoseconds since the epoch.
NewMeta(tokens) ==
    [Delivered |-> Uint64(parseNum(tokens[5])),
     Stream |-> Uint64(parseNum(tokens[6])),
     Consumer |-> Uint64(parseNum(tokens[7])),
     Timestamp |-> parseNum(tokens[8]),
     Pending |-> Uint64(parseNum(tokens[9]))]

\* Mutant: a reply subject with more than nine tokens is accepted.
MsgMetaData_AtLeastNine(m, s) ==
    LET chk == checkReply(m, s)
        tokens == tokenize(Bytes(m.Reply), 1, 1, <<>>)
    IN  IF chk.err # ErrNone THEN [err |-> chk.err, tokens |-> <<>>, meta |-> NoMeta]
        ELSE IF \/ Len(tokens) < expectedTokens
                \/ tokens[1] # <<"$", "J", "S">>
                \/ tokens[2] # <<"A", "C", "K">>
          THEN [err |-> ErrNotJSMessage, tokens |-> <<>>, meta |-> NoMeta]
        ELSE [err |-> ErrNone, tokens |-> tokens, meta |-> NewMeta(tokens)]

\* Msg.MetaData: the error it returns, the tokens it decodes from and the
\* MsgMetaData it returns.
MsgMetaData(m, s) ==
    LET chk == checkReply(m, s)
        tokens == tokenize(Bytes(m.Reply), 1, 1, <<>>)
    IN  IF chk.err # ErrNone THEN [err |-> chk.err, tokens |-> <<>>, meta |-> NoMeta]
        ELSE IF \/ Len(tokens) # expectedTokens
                \/ tokens[1] # <<"$", "J", "S">>
                \/ tokens[2] # <<"A", "C", "K">>
          THEN [err |-> ErrNotJSMessage, tokens |-> <<>>, meta |-> NoMeta]
        ELSE [err |-> ErrNone, tokens |-> tokens, meta |-> NewMeta(tokens)]

\* One MetaData call on a message delivered to the subscription.
MetaData ==
    /\ HasSubscription
    /\ op = NoOp /\ dlv = NoDelivery
    /\ \E m \in [Reply : MetaReplySubjects, bound : BOOLEAN] :
         LET r == MsgMetaData(m, sub)
         IN  /\ op' = [name |-> "MetaData", Reply |-> m.Reply, bound |-> m.bound,
                       jsi |-> sub.jsi, Subject |-> sub.Subject, err |-> r.err,
                       sent |-> <<>>, meta |-> r.meta]
             /\ acc' = acc \cup checkReplyAccesses(m, sub)
    /\ UNCHANGED <<js, call, sub, net, inboxes, api, dlv>>

----------------------------------------------------------------------------
(* Publisher *)

\* Headers for published messages.
MsgIdHdr == "Nats-Msg-Id"
ExpectedStreamHdr == "Nats-Expected-Stream"
ExpectedLastSeqHdr == "Nats-Expected-Last-Sequence"
ExpectedLastMsgIdHdr == "Nats-Expected-Last-Msg-Id"

\* js.wait as Conn.JetStream sets it, in seconds.
defaultRequestWait == 5

\* MaxWait(ttl): not given, or a duration in seconds.
MaxWaits == {-1, 0, 1}
NoMaxWait == [given |-> FALSE, ttl |-> 0]
MaxWaitOpts == {NoMaxWait} \cup [given : {TRUE}, ttl : MaxWaits]

\* The options of one publish call: MaxWait, Context, MsgId, ExpectLastMsgId,
\* ExpectStream, ExpectLastSequence; an empty string or 0 where not given.
PublishArgs ==
    [maxWait : MaxWaitOpts, ctx : BOOLEAN, id : {_EMPTY_, "id1"},
     lid : {_EMPTY_, "id0"}, str : {_EMPTY_, "S"}, seq : {0, 7}]

\* Responses to a publish.
ErrorDescriptions == {"expected stream does not match"}
PubAckResponses ==
    {[NoResp EXCEPT !.kind = "err", !.err = e] : e \in RequestErrs}
    \cup {[NoResp EXCEPT !.kind = "garbage"]}
    \cup {[NoResp EXCEPT !.kind = "json", !.hasAck = TRUE, !.stream = st, !.seq = sq,
                         !.duplicate = du] :
             st \in StreamNames, sq \in {0, 7}, du \in BOOLEAN}
    \cup {[NoResp EXCEPT !.kind = "json", !.hasError = TRUE, !.code = 400,
                         !.description = d, !.hasAck = TRUE, !.stream = st, !.seq = sq,
                         !.duplicate = du] :
             d \in ErrorDescriptions, st \in StreamNames,
             sq \in {0, 7}, du \in BOOLEAN}
    \cup {[NoResp EXCEPT !.kind = "json", !.hasError = he,
                         !.code = IF he THEN 400 ELSE 0,
                         !.description = IF he THEN d ELSE _EMPTY_] :
             he \in BOOLEAN, d \in ErrorDescriptions}

\* pubOpts after the options have run.
configurePublish(args) ==
    [ctx |-> args.ctx, ttl |-> IF args.maxWait.given THEN args.maxWait.ttl ELSE 0,
     id |-> args.id, lid |-> args.lid, str |-> args.str, seq |-> args.seq]

\* Mutant: only a positive timeout collides with a context.
optionCollision_PositiveOnly(o) == o.ctx /\ o.ttl > 0

\* The check for option collisions: timeout and context.
optionCollision(o) == o.ctx /\ o.ttl # 0

\* m.Header once the options' headers are set.
PublishHeader(o) ==
    (IF o.id # _EMPTY_ THEN {<<MsgIdHdr, o.id>>} ELSE {})
    \cup (IF o.lid # _EMPTY_ THEN {<<ExpectedLastMsgIdHdr, o.lid>>} ELSE {})
    \cup (IF o.str # _EMPTY_ THEN {<<ExpectedStreamHdr, o.str>>} ELSE {})
    \cup (IF o.seq > 0 THEN {<<ExpectedLastSeqHdr, ToString(o.seq)>>} ELSE {})

\* Mutant: a decode failure is returned as the decoder reported it.
PubAckResult_RawDecodeError(resp) ==
    IF resp.kind = "err"
      THEN [err |-> IF resp.err = ErrNoResponders THEN ErrNoStreamResponse ELSE resp.err,
            ret |-> FALSE, pa |-> NoPubAck]
    ELSE IF resp.kind = "garbage"
      THEN [err |-> ErrJSONUnmarshal, ret |-> FALSE, pa |-> NoPubAck]
    ELSE IF resp.hasError
      THEN [err |-> resp.description, ret |-> FALSE, pa |-> NoPubAck]
    ELSE IF ~resp.hasAck \/ resp.stream = _EMPTY_
      THEN [err |-> ErrInvalidJSAck, ret |-> FALSE, pa |-> NoPubAck]
    ELSE [err |-> ErrNone, ret |-> TRUE,
          pa |-> [Stream |-> resp.stream, Sequence |-> resp.seq,
                  Duplicate |-> resp.duplicate]]

\* Mutant: the duplicate flag of the response is not copied.
PubAckResult_DropDuplicate(resp) ==
    IF resp.kind = "err"
      THEN [err |-> IF resp.err = ErrNoResponders THEN ErrNoStreamResponse ELSE resp.err,
            ret |-> FALSE, pa |-> NoPubAck]
    ELSE IF resp.kind = "garbage"
      THEN [err |-> ErrInvalidJSAck, ret |-> FALSE, pa |-> NoPubAck]
    ELSE IF resp.hasError
      THEN [err |-> resp.description, ret |-> FALSE, pa |-> NoPubAck]
    ELSE IF ~resp.hasAck \/ resp.stream = _EMPTY_
      THEN [err |-> ErrInvalidJSAck, ret |-> FALSE, pa |-> NoPubAck]
    ELSE [err |-> ErrNone, ret |-> TRUE,
          pa |-> [Stream |-> resp.stream, Sequence |-> resp.seq,
                  Duplicate |-> FALSE]]

\* Mutant: a response without stream name passes when it has a sequence.
PubAckResult_SequenceSuffices(resp) ==
    IF resp.kind = "err"
      THEN [err |-> IF resp.err = ErrNoResponders THEN ErrNoStreamResponse ELSE resp.err,
            ret |-> FALSE, pa |-> NoPubAck]
    ELSE IF resp.kind = "garbage"
      THEN [err |-> ErrInvalidJSAck, ret |-> FALSE, pa |-> NoPubAck]
    ELSE IF resp.hasError
      THEN [err |-> resp.description, ret |-> FALSE, pa |-> NoPubAck]
    ELSE IF ~resp.hasAck \/ (resp.stream = _EMPTY_ /\ resp.seq = 0)
      THEN [err |-> ErrInvalidJSAck, ret |-> FALSE, pa |-> NoPubAck]
    ELSE [err |-> ErrNone, ret |-> TRUE,
          pa |-> [Stream |-> resp.stream, Sequence |-> resp.seq,
                  Duplicate |-> resp.duplicate]]

\* js.PublishMsg from the return of the request on: the error, whether a
\* PubAck is returned, and the PubAck.
PubAckResult(resp) ==
    IF resp.kind = "err"
      THEN [err |-> IF resp.err = ErrNoResponders THEN ErrNoStreamResponse ELSE resp.err,
            ret |-> FALSE, pa |-> NoPubAck]
    ELSE IF resp.kind = "garbage"
      THEN [err |-> ErrInvalidJSAck, ret |-> FALSE, pa |-> NoPubAck]
    ELSE IF resp.hasError
      THEN [err |-> resp.description, ret |-> FALSE, pa |-> NoPubAck]
    ELSE IF ~resp.hasAck \/ resp.stream = _EMPTY_
      THEN [err |-> ErrInvalidJSAck, ret |-> FALSE, pa |-> NoPubAck]
    ELSE [err |-> ErrNone, ret |-> TRUE,
          pa |-> [Stream |-> resp.stream, Sequence |-> resp.seq,
                  Duplicate |-> resp.duplicate]]

\* js.PublishMsg of message m with the options args, resp being what the
\* request comes back with if it is made.
PublishMsg(m, args, resp) ==
    LET o == configurePublish(args)
        ttl == IF o.ttl = 0 /\ ~o.ctx THEN defaultRequestWait ELSE o.ttl
        request == [EvRequest(m.Subject, [data |-> m.Data, header |-> PublishHeader(o)])
                      EXCEPT !.err = resp.err]
        r == PubAckResult(resp)
    IN  IF optionCollision(o)
          THEN [resp |-> NoResp, err |-> ErrContextAndTimeout, ret |-> FALSE,
                pa |-> NoPubAck, sent |-> <<>>]
        ELSE IF ttl <= 0 /\ ~o.ctx
          \* RequestMsgWithContext with a nil context
          THEN [resp |-> NoResp, err |-> ErrInvalidContext, ret |-> FALSE,
                pa |-> NoPubAck, sent |-> <<>>]
        ELSE [resp |-> resp, err |-> r.err, ret |-> r.ret, pa |-> r.pa,
              sent |-> <<request>>]

\* A call on the context by an application that holds no subscription.
ContextCall ==
    /\ call.pc = "none"
    /\ ~sub.made
    /\ api.name = "none"

\* js.Publish(subj, data, opts...)
Publish ==
    /\ ContextCall
    /\ \E args \in PublishArgs, resp \in PubAckResponses :
         LET r == PublishMsg([Subject |-> "ORDERS", Data |-> "x"], args, resp)
         IN  api' = [name |-> "Publish", args |-> args, resp |-> r.resp, err |-> r.err,
                     ret |-> r.ret, pa |-> r.pa, sent |-> r.sent]
    /\ UNCHANGED <<js, call, sub, net, inboxes, op, dlv, acc>>

----------------------------------------------------------------------------
(* Context creation and management *)

\* Responses to a request on the management API: a transport error, a body
\* that does not decode, a body with an error payload, a proper body.
APIResponses ==
    {[NoResp EXCEPT !.kind = "err", !.err = e] : e \in RequestErrs}
    \cup {[NoResp EXCEPT !.kind = "garbage"]}
    \cup {[NoResp EXCEPT !.kind = "json", !.hasError = TRUE, !.code = c,
                         !.description = d] :
             c \in {400, 503}, d \in ErrorDescriptions}
    \cup {[NoResp EXCEPT !.kind = "json"]}

\* json.Marshal(cfg) of a StreamConfig.
StreamConfigJSON(name) == [name |-> name]

\* Mutant: the account-info request is made for a direct context too.
connJetStream_AlwaysAccountInfo(resp) ==
    LET request == [EvRequest(apiSubj(JSApiAccountInfo), NilBody) EXCEPT !.err = resp.err]
    IN  IF resp.kind = "err"
          THEN [resp |-> resp,
                err |-> IF resp.err = ErrNoResponders THEN ErrJetStreamNotEnabled
                        ELSE resp.err,
                sent |-> <<request>>]
        ELSE IF resp.kind = "garbage"
          THEN [resp |-> resp, err |-> ErrJSONUnmarshal, sent |-> <<request>>]
        ELSE IF resp.hasError /\ resp.code = 503
          THEN [resp |-> resp, err |-> ErrJetStreamNotEnabled, sent |-> <<request>>]
        ELSE [resp |-> resp, err |-> ErrNone, sent |-> <<request>>]

\* Conn.JetStream with the options that made js: the account-info request
\* unless the context is direct.
connJetStream(resp) ==
    LET request == [EvRequest(apiSubj(JSApiAccountInfo), NilBody) EXCEPT !.err = resp.err]
    IN  IF js.direct THEN [resp |-> NoResp, err |-> ErrNone, sent |-> <<>>]
        ELSE IF resp.kind = "err"
          THEN [resp |-> resp,
                err |-> IF resp.err = ErrNoResponders THEN ErrJetStreamNotEnabled
                        ELSE resp.err,
                sent |-> <<request>>]
        ELSE IF resp.kind = "garbage"
          THEN [resp |-> resp, err |-> ErrJSONUnmarshal, sent |-> <<request>>]
        ELSE IF resp.hasError /\ resp.code = 503
          THEN [resp |-> resp, err |-> ErrJetStreamNotEnabled, sent |-> <<request>>]
        ELSE [resp |-> resp, err |-> ErrNone, sent |-> <<request>>]

\* js.AddConsumer(stream, cfg).
jsAddConsumer(stream, cfg, resp) ==
    LET request == [EvRequest(apiSubj(ccSubj(stream, cfg)), CreateConsumerJSON(stream, cfg))
                      EXCEPT !.err = resp.err]
    IN  IF stream = _EMPTY_
          THEN [resp |-> NoResp, err |-> ErrStreamNameRequired, sent |-> <<>>]
        ELSE IF MarshalFails(cfg)
          THEN [resp |-> NoResp, err |-> ErrJSONMarshal, sent |-> <<>>]
        ELSE IF resp.kind = "err"
          THEN [resp |-> resp,
                err |-> IF resp.err = ErrNoResponders THEN ErrJetStreamNotEnabled
                        ELSE resp.err,
                sent |-> <<request>>]
        ELSE IF resp.kind = "garbage"
          THEN [resp |-> resp, err |-> ErrJSONUnmarshal, sent |-> <<request>>]
        ELSE IF resp.hasError
          THEN [resp |-> resp, err |-> resp.description, sent |-> <<request>>]
        ELSE [resp |-> resp, err |-> ErrNone, sent |-> <<request>>]

\* js.AddStream(cfg), name being cfg.Name.
jsAddStream(name, resp) ==
    LET request == [EvRequest(apiSubj(JSApiStreamCreateT(name)), StreamConfigJSON(name))
                      EXCEPT !.err = resp.err]
    IN  IF name = _EMPTY_
          THEN [resp |-> NoResp, err |-> ErrStreamNameRequired, sent |-> <<>>]
        ELSE IF resp.kind = "err"
          THEN [resp |-> resp, err |-> resp.err, sent |-> <<request>>]
        ELSE IF resp.kind = "garbage"
          THEN [resp |-> resp, err |-> ErrJSONUnmarshal, sent |-> <<request>>]
        ELSE IF resp.hasError
          THEN [resp |-> resp, err |-> resp.description, sent |-> <<request>>]
        ELSE [resp |-> resp, err |-> ErrNone, sent |-> <<request>>]

\* js.StreamInfo(stream).
jsStreamInfo(stream, resp) ==
    LET request == [EvRequest(apiSubj(JSApiStreamInfoT(stream)), NilBody)
                      EXCEPT !.err = resp.err]
    IN  IF resp.kind = "err"
          THEN [resp |-> resp, err |-> resp.err, sent |-> <<request>>]
        ELSE IF resp.kind = "garbage"
          THEN [resp |-> resp, err |-> ErrJSONUnmarshal, sent |-> <<request>>]
        ELSE IF resp.hasError
          THEN [resp |-> resp, err |-> resp.description, sent |-> <<request>>]
        ELSE [resp |-> resp, err |-> ErrNone, sent |-> <<request>>]

\* The record of a context call that returned r.
ApiDone(name, args, r) ==
    [name |-> name, args |-> args, resp |-> r.resp, err |-> r.err,
     ret |-> r.err = ErrNone, pa |-> NoPubAck, sent |-> r.sent]

JetStream ==
    /\ ContextCall
    /\ \E resp \in APIResponses :
         api' = ApiDone("JetStream", [direct |-> js.direct], connJetStream(resp))
    /\ UNCHANGED <<js, call, sub, net, inboxes, op, dlv, acc>>

AddConsumer ==
    /\ ContextCall
    /\ \E stream \in StreamNames, durable \in DurableNames, resp \in APIResponses :
         api' = ApiDone("AddConsumer", [stream |-> stream, durable |-> durable],
                        jsAddConsumer(stream, [NoCfg EXCEPT !.Durable = durable], resp))
    /\ UNCHANGED <<js, call, sub, net, inboxes, op, dlv, acc>>

AddStream ==
    /\ ContextCall
    /\ \E name \in StreamNames, resp \in APIResponses :
         api' = ApiDone("AddStream", [stream |-> name], jsAddStream(name, resp))
    /\ UNCHANGED <<js, call, sub, net, inboxes, op, dlv, acc>>

StreamInfo ==
    /\ ContextCall
    /\ \E stream \in StreamNames, resp \in APIResponses :
         api' = ApiDone("StreamInfo", [stream |-> stream], jsStreamInfo(stream, resp))
    /\ UNCHANGED <<js, call, sub, net, inboxes, op, dlv, acc>>

Next ==
    \/ Subscribe
    \/ PlainSubscribe
    \/ \E resp \in ConsumerInfoResponses : RecvConsumerInfo(resp)
    \/ \E resp \in StreamNamesResponses : RecvStreamNames(resp)
    \/ \E resp \in CreateResponses : RecvCreate(resp)
    \/ Ack
    \/ AckSync
    \/ Nak
    \/ Term
    \/ InProgress
    \/ MetaData
    \/ PollCall
    \/ Deliver
    \/ CallbackReturn
    \/ Publish
    \/ ConsumerInfoCall
    \/ JetStream
    \/ AddConsumer
    \/ AddStream
    \/ StreamInfo

Spec == Init /\ [][Next]_vars

----------------------------------------------------------------------------
(* The subject router on its own: every prefix, every suffix *)

\* Arguments given to APIPrefix, and suffixes given to apiSubj.
PrefixArgs == {_EMPTY_, ".", "imp", "imp.", "a.b"}
Suffixes ==
    {_EMPTY_, "a.b", JSApiAccountInfo, JSApiStreams, JSApiConsumerCreateT("S"),
     JSApiDurableCreateT("S", "dur"), JSApiConsumerInfoT("S", "C"),
     JSApiRequestNextT("S", "C"), JSApiStreamCreateT("S"), JSApiStreamInfoT("S")}

\* A js as Conn.JetStream makes it before the options run, or a zero js.
InitRouter ==
    /\ js \in [pre : {_EMPTY_, JSDefaultAPIPrefix}, direct : BOOLEAN]
    /\ call = NoCall
    /\ sub = NoSub
    /\ net = <<>>
    /\ inboxes = 0
    /\ op = NoOp
    /\ dlv = NoDelivery
    /\ api = NoApi
    /\ acc = {}

\* The APIPrefix option runs on js.
SetAPIPrefix ==
    /\ api.name = "none"
    /\ \E pre \in PrefixArgs :
         /\ js' = [js EXCEPT !.pre = APIPrefix(pre)]
         /\ api' = [NoApi EXCEPT !.name = "APIPrefix", !.args = [pre |-> pre]]
    /\ UNCHANGED <<call, sub, net, inboxes, op, dlv, acc>>

\* js.apiSubj(subj) is computed.
ApiSubjCall ==
    /\ api.name \in {"none", "APIPrefix"}
    /\ \E subj \in Suffixes :
         api' = [NoApi EXCEPT !.name = "apiSubj",
                              !.args = [subj |-> subj, out |-> apiSubj(subj)]]
    /\ UNCHANGED <<js, call, sub, net, inboxes, op, dlv, acc>>

NextRouter == SetAPIPrefix \/ ApiSubjCall

SpecRouter == InitRouter /\ [][NextRouter]_vars

----------------------------------------------------------------------------
(* parseNum on its own *)

\* The bytes a token is made of: the decimal digits and a byte that is none.
TokenBytes == {"0", "1", "2", "3", "4", "5", "6", "7", "8", "9", "x"}

\* The tokens parseNum is called with.
Tokens == UNION {[1..n -> TokenBytes] : n \in 0..MaxTokenLen}

\* A token is at hand, parseNum not yet called.
InitNum ==
    /\ js \in [pre : {JSDefaultAPIPrefix}, direct : {FALSE}]
    /\ call = NoCall
    /\ sub = NoSub
    /\ net = <<>>
    /\ inboxes = 0
    /\ op = NoOp
    /\ dlv = NoDelivery
    /\ acc = {}
    /\ api \in {[NoApi EXCEPT !.name = "token", !.args = [d |-> d]] : d \in Tokens}

\* parseNum(d) is computed.
ParseNumCall ==
    /\ api.name = "token"
    /\ api' = [NoApi EXCEPT !.name = "parseNum",
                            !.args = [d |-> api.args.d, out |-> parseNum(api.args.d)]]
    /\ UNCHANGED <<js, call, sub, net, inboxes, op, dlv, acc>>

NextNum == ParseNumCall

SpecNum == InitNum /\ [][NextNum]_vars

----------------------------------------------------------------------------
(* Properties *)

\* subscribe has returned a subscription / an error.
Returned == call.pc = "done" /\ call.ret
Failed == call.pc = "done" /\ ~call.ret

\* Events of the subscribe call, by kind.
IsCreateReq(e) == e.op = "REQ" /\ "stream_name" \in DOMAIN e.body
IsInfoReq(e) ==
    e.op = "REQ" /\ e.subj = apiSubj(JSApiConsumerInfoT(call.o.stream, call.o.consumer))
IsLookupReq(e) == e.op = "REQ" /\ e.subj = apiSubj(JSApiStreams)
IsNextReq(e) == e.op = "PUB" /\ "batch" \in DOMAIN e.body
IsLocalSub(e) == e.op = "SUB"
Indices(P(_)) == {i \in 1..Len(net) : P(net[i])}

\* C1: after a successful subscribe, a binding whose pull batch size is
\* greater than 0 has an empty deliver subject.
C1_PullBindingHasNoDeliver ==
    Returned /\ sub.jsi.pull > 0 => sub.jsi.deliver = _EMPTY_

\* C2: after a successful subscribe, a binding whose pull batch size is 0
\* has a non-empty deliver subject.
C2_PushBindingHasDeliver ==
    Returned /\ sub.jsi.pull = 0 => sub.jsi.deliver # _EMPTY_

\* C3: when subscribe returns an error after the local subscription was
\* established, that subscription has been unsubscribed.
C3_FailedSubscribeUnsubscribed ==
    Failed /\ sub.made => sub.closed

\* C4: on the create path the local subscription is established before the
\* create-consumer request is sent, and the request is never sent when the
\* local subscription failed.
C4_SubscribeBeforeCreate ==
    \A i \in Indices(IsCreateReq) :
        /\ \E j \in 1..(i - 1) :
              /\ IsLocalSub(net[j])
              /\ net[j].err = ErrNone
              /\ net[j].subj = call.deliver
        /\ \A j \in Indices(IsLocalSub) : net[j].err = ErrNone
        /\ sub.made /\ sub.Subject = call.deliver

\* The create-consumer request is out and the local subscription is live.
C4_Witness ==
    call.pc = "create" /\ Indices(IsCreateReq) # {} /\ sub.made /\ ~sub.closed

\* C5: a subscribe that succeeds with pull batch size N > 0 has handed the
\* transport exactly one next-message request, to CONSUMER.MSG.NEXT of the
\* bound stream and consumer, with batch N and the local subscription's
\* subject as reply address.
C5_OnePollAtBind ==
    Returned /\ call.o.pull > 0 =>
        /\ Cardinality(Indices(IsNextReq)) = 1
        /\ \A i \in Indices(IsNextReq) :
              /\ net[i].subj = apiSubj(JSApiRequestNextT(sub.jsi.stream, sub.jsi.consumer))
              /\ net[i].reply = sub.Subject
              /\ net[i].body = [batch |-> call.o.pull]

\* The options as the caller gave them.
BadBatchGiven == call.args.pullOpt.given /\ call.args.pullOpt.batch = 0
PullWithCallback == call.args.cb /\ call.args.pullOpt.batch > 0
AttachGiven ==
    \/ call.args.stream # _EMPTY_ /\ call.args.consumer # _EMPTY_
    \/ call.args.deliverSubject # _EMPTY_

\* C6 as stated: in direct mode a subscribe whose options imply creation
\* fails with the direct-mode-required error, with no remote request and no
\* local subscription.
C6_DirectCreateFailsDirectMode ==
    js.direct /\ call.pc = "done" /\ ~AttachGiven =>
        /\ ~call.ret /\ call.err = ErrDirectModeRequired
        /\ net = <<>>
        /\ ~sub.made

\* C6 amended: in direct mode a subscribe whose options imply creation
\* always fails with no remote request and no local subscription; the error
\* is the direct-mode-required error unless a zero batch size or pull mode
\* with a callback is reported first.
C6_DirectCreateFails ==
    js.direct /\ call.pc = "done" /\ ~AttachGiven =>
        /\ ~call.ret
        /\ call.err = IF BadBatchGiven THEN ErrBatchSize
                      ELSE IF PullWithCallback THEN ErrPullModeNotAllowed
                      ELSE ErrDirectModeRequired
        /\ net = <<>>
        /\ ~sub.made

\* A direct-mode call with valid create-implying options has failed.
C6_Witness ==
    /\ js.direct /\ call.pc = "done" /\ ~AttachGiven
    /\ ~BadBatchGiven /\ ~PullWithCallback
    /\ call.err = ErrDirectModeRequired

C8_AttachOrCreate ==
    /\ call.path # "none" =>
          /\ call.path = "attach" <=> AttachGiven
          /\ call.path = "create" <=> ~AttachGiven
    /\ \A i \in Indices(IsCreateReq) : call.path = "create" /\ ~AttachGiven
    /\ \A i \in Indices(IsLookupReq) : call.path = "create" /\ ~AttachGiven
    /\ call.pc = "info" => call.path = "attach" /\ AttachGiven

\* Both paths are taken: this one is a create whose request is out.
C8_Witness ==
    call.path = "create" /\ ~AttachGiven /\ Indices(IsCreateReq) # {}

\* The signal of each acknowledgment operation.
Signal(name) ==
    CASE name = "Ack" -> AckAck
      [] name = "AckSync" -> AckAck
      [] name = "Nak" -> AckNak
      [] name = "Term" -> AckTerm
      [] OTHER -> AckProgress

\* The operation ran on a message with a reply subject, bound to a
\* subscription that has a JetStream binding.
OpOnJSMsg == op.name # "none" /\ op.Reply # _EMPTY_ /\ op.bound /\ op.jsi.set

\* C9: on a message of a push-mode binding, Ack, Nak, Term and InProgress
\* send exactly the literal bytes of their signal to the message's reply
\* subject and nothing else.
C9_PushAckSendsSignal ==
    /\ OpOnJSMsg /\ op.jsi.pull = 0
    /\ op.name \in {"Ack", "Nak", "Term", "InProgress"}
    =>  /\ Len(op.sent) = 1
        /\ op.sent[1].op = "PUB"
        /\ op.sent[1].subj = op.Reply
        /\ op.sent[1].reply = _EMPTY_
        /\ op.sent[1].body = [raw |-> Signal(op.name)]

\* A Nak on a push-mode message went out.
C9_Witness ==
    /\ OpOnJSMsg /\ op.jsi.pull = 0 /\ op.name = "Nak"
    /\ op.sent # <<>> /\ op.err = ErrNone

\* C10: on a message of a pull-mode binding, Ack publishes a next-message
\* request to the message's reply subject with the subscription's subject as
\* reply address, Nak and Term publish a next-message request for batch 1
\* the same way, and the literal +ACK, -NAK and +TERM bytes are never sent.
C10_PullAckRequestsNext ==
    OpOnJSMsg /\ op.jsi.pull > 0 =>
        /\ op.name = "Ack" =>
              op.sent = <<[op |-> "PUB", subj |-> op.Reply, reply |-> op.Subject,
                           body |-> [raw |-> "+NXT"], err |-> op.err]>>
        /\ op.name \in {"Nak", "Term"} =>
              op.sent = <<[op |-> "PUB", subj |-> op.Reply, reply |-> op.Subject,
                           body |-> [raw |-> "+NXT {\"batch\":1}"], err |-> op.err]>>
        /\ \A i \in 1..Len(op.sent) :
              op.sent[i].body.raw \notin {"+ACK", "-NAK", "+TERM"}

\* A Nak on a pull-mode message went out.
C10_Witness ==
    /\ OpOnJSMsg /\ op.jsi.pull > 0 /\ op.name = "Nak"
    /\ op.sent # <<>> /\ op.err = ErrNone

\* Operations on a delivered message that start with Msg.checkReply.
MsgOps == {"Ack", "AckSync", "Nak", "Term", "InProgress", "MetaData"}

\* The binding errors that apply to the message of the operation.
BindingErrors ==
    (IF op.Reply = _EMPTY_ THEN {ErrMsgNoReply} ELSE {})
    \cup (IF ~op.bound THEN {ErrMsgNotBound} ELSE {})
    \cup (IF op.bound /\ ~op.jsi.set THEN {ErrNotJSMessage} ELSE {})

\* C11: an acknowledgment or metadata operation on a message that has no
\* reply subject, is not bound to a subscription, or whose subscription has
\* no JetStream binding returns the binding error of a defect the message
\* has (the only one, when it has one defect) and hands nothing to the
\* transport.
C11_BindingErrors ==
    (op.name \in MsgOps /\ BindingErrors # {}) =>
        /\ op.err \in BindingErrors
        /\ op.sent = <<>>

\* An acknowledgment of a message that has a reply subject and belongs to a
\* subscription made outside JetStream was refused.
C11_Witness ==
    /\ op.name = "Ack"
    /\ op.Reply # _EMPTY_ /\ op.bound /\ ~op.jsi.set
    /\ op.err = ErrNotJSMessage

\* C12: AckSync returns success only when a request on the message's reply
\* subject got its response; when the request ends without a response
\* (timeout, no responders) AckSync returns an error; and in pull mode the
\* request is made only after the next-message request was published
\* without error.
C12_AckSyncWaitsForResponse ==
    op.name = "AckSync" =>
        /\ op.err = ErrNone =>
              \E i \in 1..Len(op.sent) :
                  /\ op.sent[i].op = "REQ"
                  /\ op.sent[i].subj = op.Reply
                  /\ op.sent[i].err = ErrNone
        /\ \A i \in 1..Len(op.sent) :
              (op.sent[i].op = "REQ" /\ op.sent[i].err # ErrNone) => op.err # ErrNone
        /\ op.jsi.pull > 0 =>
              \A i \in 1..Len(op.sent) :
                  op.sent[i].op = "REQ" =>
                      /\ i > 1
                      /\ op.sent[i - 1] =
                            [op |-> "PUB", subj |-> op.Reply, reply |-> op.Subject,
                             body |-> [raw |-> "+NXT"], err |-> ErrNone]

\* An AckSync on a pull-mode message published the next-message request,
\* waited, and got its response.
C12_Witness ==
    /\ OpOnJSMsg /\ op.jsi.pull > 0 /\ op.name = "AckSync"
    /\ Len(op.sent) = 2 /\ op.err = ErrNone

\* C13: on a callback subscription bound without ManualAck, the installed
\* callback has not called m.Ack while the user's callback is running, and
\* has called it exactly once when the delivery is over: a message that has
\* a reply subject got +ACK published to it once; on a callback subscription
\* bound with ManualAck the installed callback calls and sends nothing.
C13_AutoAckAfterCallback ==
    /\ (sub.jsi.set /\ sub.autoAck /\ dlv.stage = "callback") =>
          dlv.ackCalls = 0 /\ dlv.sent = <<>>
    /\ (sub.jsi.set /\ sub.autoAck /\ dlv.stage = "returned") =>
          /\ dlv.ackCalls = 1
          /\ dlv.Reply # _EMPTY_ =>
                dlv.sent = <<[op |-> "PUB", subj |-> dlv.Reply, reply |-> _EMPTY_,
                              body |-> [raw |-> "+ACK"], err |-> dlv.err]>>
    /\ (sub.jsi.set /\ sub.hasCb /\ ~sub.autoAck) =>
          dlv.ackCalls = 0 /\ dlv.sent = <<>>

\* A message with a reply subject went through the callback of a
\* subscription bound without ManualAck, and its +ACK was published.
C13_Witness ==
    /\ sub.jsi.set /\ sub.autoAck
    /\ dlv.stage = "returned" /\ dlv.Reply # _EMPTY_
    /\ dlv.sent # <<>> /\ dlv.err = ErrNone

\* The subscription Poll was called on is a pull binding: it has a JetStream
\* binding with an empty deliver subject and a non-zero batch size.
PollOnPullBinding ==
    op.jsi.set /\ op.jsi.deliver = _EMPTY_ /\ op.jsi.pull # 0

\* C14: Poll succeeds only on a binding with an empty deliver subject and a
\* non-zero batch size; on a subscription without JetStream binding, with a
\* deliver subject, or with batch size 0 it returns ErrTypeSubscription and
\* hands nothing to the transport.
C14_PollOnlyOnPullBinding ==
    op.name = "Poll" =>
        /\ op.err = ErrNone => PollOnPullBinding
        /\ ~PollOnPullBinding => (op.err = ErrTypeSubscription /\ op.sent = <<>>)

\* Poll was refused on a binding that has a deliver subject.
C14_Witness ==
    /\ op.name = "Poll"
    /\ op.jsi.set /\ op.jsi.deliver # _EMPTY_
    /\ op.err = ErrTypeSubscription

\* C15: a successful Poll hands the transport exactly one message: a publish
\* to the API prefix followed by CONSUMER.MSG.NEXT.<stream>.<consumer> of the
\* binding, carrying the binding's batch size, with the subscription's
\* subject as reply address; it makes no request that waits for a response.
C15_PollPublishesOneRequest ==
    (op.name = "Poll" /\ op.err = ErrNone) =>
        op.sent = <<[op |-> "PUB",
                     subj |-> js.pre \o "CONSUMER.MSG.NEXT." \o op.jsi.stream
                                     \o "." \o op.jsi.consumer,
                     reply |-> op.Subject,
                     body |-> [batch |-> op.jsi.pull],
                     err |-> ErrNone]>>

\* A Poll on a pull binding with a stream and a consumer name succeeded.
C15_Witness ==
    /\ op.name = "Poll" /\ op.err = ErrNone
    /\ op.jsi.stream # _EMPTY_ /\ op.jsi.consumer # _EMPTY_
    /\ op.jsi.pull = MaxBatch

\* The publish call made a request and got a response body.
PublishGotBody == api.name = "Publish" /\ api.resp.kind \in {"garbage", "json"}

\* C16 as stated: a publish call given both a deadline option and a context
\* fails with ErrContextAndTimeout and sends no request.
C16_ContextAndDeadlineFails ==
    (api.name = "Publish" /\ api.args.maxWait.given /\ api.args.ctx) =>
        (api.err = ErrContextAndTimeout /\ api.sent = <<>>)

\* C16: a publish call given both a deadline option with a duration other
\* than zero and a context fails with ErrContextAndTimeout and sends no
\* request.
C16_ContextAndNonZeroDeadlineFails ==
    (api.name = "Publish" /\ api.args.maxWait.given /\ api.args.maxWait.ttl # 0
        /\ api.args.ctx) =>
        (api.err = ErrContextAndTimeout /\ api.sent = <<>>)

\* A publish with MaxWait of one second and a context was refused.
C16_Witness ==
    /\ api.name = "Publish"
    /\ api.args.maxWait.given /\ api.args.maxWait.ttl > 0 /\ api.args.ctx
    /\ api.err = ErrContextAndTimeout

\* C17 as stated: publish returns ErrInvalidJSAck and no PubAck when the
\* response body fails to decode, carries an error payload, or lacks both a
\* stream name and a non-zero sequence.
C17_InvalidAckCases ==
    (/\ PublishGotBody
     /\ \/ api.resp.kind = "garbage"
        \/ api.resp.hasError
        \/ (api.resp.stream = _EMPTY_ /\ api.resp.seq = 0)) =>
        (api.err = ErrInvalidJSAck /\ ~api.ret)

\* C17: publish returns ErrInvalidJSAck and no PubAck when the response body
\* fails to decode, or carries no error payload and lacks both a stream name
\* and a non-zero sequence; when the response carries an error payload,
\* publish returns an error with the payload's description and no PubAck.
C17_InvalidAckOrDescription ==
    PublishGotBody =>
        /\ api.resp.kind = "garbage" => (api.err = ErrInvalidJSAck /\ ~api.ret)
        /\ (/\ api.resp.kind = "json" /\ ~api.resp.hasError
            /\ api.resp.stream = _EMPTY_ /\ api.resp.seq = 0) =>
              (api.err = ErrInvalidJSAck /\ ~api.ret)
        /\ (api.resp.kind = "json" /\ api.resp.hasError) =>
              (api.err = api.resp.description /\ ~api.ret)

\* A publish whose response did not decode returned ErrInvalidJSAck.
C17_Witness ==
    /\ api.name = "Publish" /\ api.resp.kind = "garbage"
    /\ api.err = ErrInvalidJSAck

\* C18: when the publish response carries a stream name and a sequence and
\* no error payload, publish returns a PubAck with that stream, sequence and
\* duplicate flag; when it carries an error payload, publish returns an
\* error whose text is the payload's description.
C18_PubAckFromResponse ==
    (api.name = "Publish" /\ api.resp.kind = "json") =>
        /\ (~api.resp.hasError /\ api.resp.stream # _EMPTY_ /\ api.resp.seq # 0) =>
              /\ api.err = ErrNone /\ api.ret
              /\ api.pa = [Stream |-> api.resp.stream, Sequence |-> api.resp.seq,
                           Duplicate |-> api.resp.duplicate]
        /\ api.resp.hasError => api.err = api.resp.description

\* A publish returned the PubAck of a duplicate.
C18_Witness ==
    /\ api.name = "Publish" /\ api.ret
    /\ api.pa.Stream # _EMPTY_ /\ api.pa.Sequence # 0 /\ api.pa.Duplicate

\* C19: whenever the transport reports no responders to a request, the
\* caller does not get ErrNoResponders: publish returns ErrNoStreamResponse,
\* and context creation, subscribe (stream lookup, consumer info, consumer
\* create), ConsumerInfo, AddConsumer, AddStream and StreamInfo return
\* ErrJetStreamNotEnabled.
C19_NoRespondersTranslated ==
    /\ (api.name = "Publish" /\ api.resp.err = ErrNoResponders) =>
          api.err = ErrNoStreamResponse
    /\ (/\ api.name \in {"JetStream", "AddConsumer", "AddStream", "StreamInfo"}
        /\ api.resp.err = ErrNoResponders) =>
          api.err = ErrJetStreamNotEnabled
    /\ (call.pc = "done" /\ call.reqErr = ErrNoResponders) =>
          call.err = ErrJetStreamNotEnabled
    /\ (/\ op.name = "ConsumerInfo" /\ op.sent # <<>>
        /\ op.sent[1].err = ErrNoResponders) =>
          op.err = ErrJetStreamNotEnabled

\* The reply subject of the operation has exactly nine '.'-separated tokens,
\* "$JS" the first and "ACK" the second: it has eight '.' and starts with
\* "$JS.ACK.".
NineTokenAckReply ==
    LET r == Bytes(op.Reply)
    IN  /\ Cardinality({i \in 1..Len(r) : r[i] = "."}) = 8
        /\ Len(r) >= 8
        /\ SubSeq(r, 1, 8) = <<"$", "J", "S", ".", "A", "C", "K", ".">>

\* C20 as stated: MetaData of a bound message of a JetStream subscription
\* succeeds exactly when the reply subject has nine tokens, "$JS" first and
\* "ACK" second, and for every other reply subject fails with
\* ErrNotJSMessage.
C20_MetaDataShape ==
    (op.name = "MetaData" /\ op.bound /\ op.jsi.set) =>
        /\ op.err = ErrNone <=> NineTokenAckReply
        /\ ~NineTokenAckReply => op.err = ErrNotJSMessage

\* C20: MetaData of a bound message of a JetStream subscription succeeds
\* exactly when the reply subject has nine tokens, "$JS" first and "ACK"
\* second; for every other reply subject that is not empty it fails with
\* ErrNotJSMessage, and for the empty one with ErrMsgNoReply.
C20_MetaDataShapeWithReply ==
    (op.name = "MetaData" /\ op.bound /\ op.jsi.set) =>
        /\ op.err = ErrNone <=> NineTokenAckReply
        /\ (~NineTokenAckReply /\ op.Reply # _EMPTY_) => op.err = ErrNotJSMessage
        /\ op.Reply = _EMPTY_ => op.err = ErrMsgNoReply

\* MetaData was refused on a bound JetStream message whose reply subject has
\* ten tokens.
C20_Witness ==
    /\ op.name = "MetaData" /\ op.bound /\ op.jsi.set
    /\ op.Reply = "$JS.ACK.S.C.1.2.3.4.5.6"
    /\ op.err = ErrNotJSMessage

\* The decimal digits, and the number a token of digits writes.
Digits == {"0", "1", "2", "3", "4", "5", "6", "7", "8", "9"}
IsNumber(tok) == tok # <<>> /\ \A i \in 1..Len(tok) : tok[i] \in Digits
RECURSIVE Decimal(_)
Decimal(tok) ==
    IF tok = <<>> THEN 0
    ELSE 10 * Decimal(SubSeq(tok, 1, Len(tok) - 1))
         + (CHOOSE v \in 0..9 : ToString(v) = tok[Len(tok)])

\* What a field decoded from token tok is to hold: the token's number, or
\* the sentinel -1 when the token is empty or has a byte that is no digit.
Decoded(tok) == IF IsNumber(tok) THEN Decimal(tok) ELSE -1

\* C21: a successful MetaData returns delivered count, stream sequence,
\* consumer sequence, timestamp and pending count equal to the numbers of
\* tokens 5 to 9 of the reply subject, and -1 in the field of a token that
\* is empty or has a byte that is no digit.
C21_FieldsDecoded ==
    (op.name = "MetaData" /\ op.err = ErrNone) =>
        LET tokens == tokenize(Bytes(op.Reply), 1, 1, <<>>)
        IN  /\ op.meta.Delivered = Decoded(tokens[5])
            /\ op.meta.Stream = Decoded(tokens[6])
            /\ op.meta.Consumer = Decoded(tokens[7])
            /\ op.meta.Timestamp = Decoded(tokens[8])
            /\ op.meta.Pending = Decoded(tokens[9])

\* C22: apiSubj returns the prefix followed by the suffix when the prefix is
\* not empty and the suffix unchanged when it is empty; the prefix the
\* APIPrefix option stores ends with '.'.
C22_ApiSubjPrefix ==
    /\ api.name = "apiSubj" =>
          api.args.out = (IF js.pre = _EMPTY_ THEN api.args.subj
                          ELSE js.pre \o api.args.subj)
    /\ api.name = "APIPrefix" =>
          LET b == Bytes(js.pre)
          IN  Len(b) > 0 /\ b[Len(b)] = "."

\* APIPrefix("imp") stored "imp.".
C22_Witness ==
    /\ api.name = "APIPrefix" /\ api.args.pre = "imp"
    /\ js.pre = "imp."

\* C23: a subscribe call with a configuration error (a pull batch size of 0,
\* or pull mode together with a callback) has returned its error once it has
\* started, with no request sent, nothing handed to the transport and no
\* local subscription made.
C23_ConfigErrorBeforeAnyEffect ==
    (call.pc \notin {"idle", "none"} /\ (BadBatchGiven \/ PullWithCallback)) =>
        /\ Failed
        /\ call.err = (IF BadBatchGiven THEN ErrBatchSize ELSE ErrPullModeNotAllowed)
        /\ net = <<>>
        /\ ~sub.made
        /\ inboxes = 0

\* A subscribe with a callback and Pull(1) on a context that is not direct,
\* attaching to a named consumer, was refused.
C23_Witness ==
    /\ Failed /\ PullWithCallback /\ ~js.direct /\ AttachGiven
    /\ call.err = ErrPullModeNotAllowed

\* The stream-lookup response decoded, and it reports no error and exactly
\* one stream name.
LookupDecoded == call.slr.kind \in {"apierr", "ok"}
OneStreamReported == call.slr.kind = "ok" /\ Len(call.slr.streams) = 1

\* C24: on the create path subscribe goes past stream resolution (draws an
\* inbox, subscribes locally, sends the create-consumer request) only when
\* the stream-lookup response reports no error and exactly one stream name;
\* when the response reports an error, no name or several names, subscribe
\* fails with ErrNoMatchingStream and has made no local subscription and
\* sent no create-consumer request.
C24_OneStreamOrNoMatch ==
    /\ (/\ call.path = "create"
        /\ \/ call.pc = "create"
           \/ sub.made
           \/ Indices(IsLocalSub) # {}
           \/ Indices(IsCreateReq) # {}) => OneStreamReported
    /\ (LookupDecoded /\ ~OneStreamReported) =>
          /\ Failed /\ call.err = ErrNoMatchingStream
          /\ ~sub.made
          /\ Indices(IsLocalSub) = {}
          /\ Indices(IsCreateReq) = {}

\* A lookup that reported two stream names without error made subscribe fail.
C24_Witness ==
    /\ call.slr.kind = "ok" /\ Len(call.slr.streams) = 2
    /\ Failed /\ call.err = ErrNoMatchingStream

\* C25: every create-consumer request subscribe sends carries an ack policy
\* that is set, explicit when the caller set none (no option of this
\* revision sets one); and when the policy is not none and the caller set no
\* MaxAckPending, the request's MaxAckPending is the pending-message limit
\* of the local subscription.
C25_CreateRequestDefaults ==
    \A i \in Indices(IsCreateReq) :
        LET cfg == net[i].body.config
        IN  /\ cfg.AckPolicy # ackPolicyNotSet
            /\ cfg.AckPolicy = AckExplicit
            /\ cfg.AckPolicy # AckNone =>
                  (sub.made /\ cfg.MaxAckPending = sub.pMsgsLimit
                            /\ cfg.MaxAckPending # 0)

\* A create-consumer request went out.
C25_Witness ==
    /\ call.pc = "create"
    /\ Indices(IsCreateReq) # {}
    /\ sub.pMsgsLimit = DefaultSubPendingMsgsLimit

\* C26: every create-consumer request subscribe sends has the requested
\* subject as its filter subject; its deliver subject is empty when the bind
\* is pull mode, and otherwise is the subject of the local subscription made
\* for this bind.
C26_CreateRequestSubjects ==
    \A i \in Indices(IsCreateReq) :
        LET cfg == net[i].body.config
        IN  /\ cfg.FilterSubject = call.subj
            /\ IF isPullMode(call.o)
               THEN cfg.DeliverSubject = _EMPTY_
               ELSE /\ cfg.DeliverSubject # _EMPTY_
                    /\ sub.made /\ cfg.DeliverSubject = sub.Subject
                    /\ \E j \in Indices(IsLocalSub) :
                          j < i /\ net[j].err = ErrNone
                                /\ net[j].subj = cfg.DeliverSubject

\* A create-consumer request of a push bind went out.
C26_Witness ==
    /\ Indices(IsCreateReq) # {}
    /\ ~isPullMode(call.o)
    /\ sub.made

\* A create-consumer request of a pull bind went out.
C26_WitnessPull ==
    /\ Indices(IsCreateReq) # {}
    /\ isPullMode(call.o)

\* The kind of remote request an event of a transport log is.
RequestKind(e) ==
    CASE e.op = "REQ" /\ "stream_name" \in DOMAIN e.body -> "consumer create"
      [] e.op = "REQ" /\ "data" \in DOMAIN e.body -> "publish request"
      [] e.op = "REQ" /\ e.subj = apiSubj(JSApiStreams) -> "stream lookup"
      [] e.op = "REQ" /\ e.subj \in MetaReplySubjects -> "ack"
      [] e.op = "REQ" -> "consumer info"
      [] e.op = "PUB" /\ e.reply # _EMPTY_ -> "next-message request"
      [] e.op = "PUB" -> "ack"
      [] OTHER -> "local"
RequestKinds ==
    {"stream lookup", "consumer info", "consumer create", "publish request",
     "next-message request", "ack"}
\* How many requests of a kind a log holds.
SentOfKind(log, k) == Cardinality({i \in 1..Len(log) : RequestKind(log[i]) = k})

\* C27: within one call of subscribe, publish, Poll, ConsumerInfo or an
\* acknowledgment operation, each kind of remote request is sent at most once,
\* also when it fails or times out.
C27_EachRequestAtMostOnce ==
    \A k \in RequestKinds :
        /\ SentOfKind(net, k) <= 1
        /\ SentOfKind(op.sent, k) <= 1
        /\ SentOfKind(dlv.sent, k) <= 1
        /\ api.name = "Publish" => SentOfKind(api.sent, k) <= 1

\* A subscribe call whose create-consumer request timed out has returned.
C27_Witness ==
    /\ Failed
    /\ call.reqErr = ErrTimeout
    /\ SentOfKind(net, "consumer create") = 1
    /\ SentOfKind(net, "stream lookup") = 1

\* No subscription is returned after a request of the call came back with
\* an error.
RequestFailureFailsSubscribe == Returned => call.reqErr = ErrNone

\* C28: if any remote call made during a subscribe call fails, the initial
\* next-message request of a pull-mode bind included, subscribe returns an
\* error: no subscription is returned after one of its remote calls failed.
C28_RemoteFailureFailsSubscribe ==
    Returned =>
        /\ call.reqErr = ErrNone
        /\ \A i \in 1..Len(net) :
              net[i].op \in {"REQ", "PUB"} => net[i].err = ErrNone

\* Every read of a binding field made so far was made with sub.mu held.
BindingReadsLocked == \A a \in acc : ~a.write => a.locked

\* C29: every read and every write of a subscription's binding fields
\* (stream, consumer, deliver subject, pull batch size) happens while the
\* subscription's lock is held, the writes subscribe makes once the local
\* subscription is live included.
C29_BindingAccessesLocked == \A a \in acc : a.locked

\* C30: once subscribe has returned, no operation on the subscription or its
\* messages (Poll, ConsumerInfo, Ack, AckSync, Nak, Term, InProgress, MetaData,
\* a delivery to the callback) changes the binding's stream, consumer name,
\* deliver subject or pull batch size, and none of them writes these fields.
C30_OpsKeepBinding ==
    [][Returned =>
          /\ sub'.jsi = sub.jsi
          /\ \A a \in acc' \ acc : ~a.write]_vars

\* An operation ran on a subscription that subscribe returned with its binding.
C30_Witness ==
    /\ Returned
    /\ op.name \in {"Poll", "ConsumerInfo"} \cup MsgOps
    /\ op.err = ErrNone
    /\ sub.jsi.consumer # _EMPTY_

\* C31: every successful subscribe stores stream, consumer and deliver in the
\* binding: on the create path those the create response reported; on the
\* attach path the stream and consumer names the caller supplied, the deliver
\* subject from the caller's option in direct mode and from the fetched
\* consumer configuration otherwise.
C31_BindingStored ==
    Returned =>
        IF call.path = "create"
        THEN LET info == ServerConsumerInfo(call.stream, call.cfg)
             IN  /\ sub.jsi.stream = info.Stream
                 /\ sub.jsi.consumer = info.Name
                 /\ sub.jsi.deliver = info.Config.DeliverSubject
        ELSE /\ sub.jsi.stream = call.args.stream
             /\ sub.jsi.consumer = call.args.consumer
             /\ sub.jsi.deliver = IF js.direct THEN call.args.deliverSubject
                                  ELSE call.ccfg.DeliverSubject

\* A consumer was created and the bind returned.
C31_Witness ==
    /\ Returned /\ call.path = "create"
    /\ sub.jsi.stream # _EMPTY_ /\ sub.jsi.consumer # _EMPTY_
    /\ sub.jsi.deliver # _EMPTY_

\* An attach outside direct mode returned, on an inbox because the fetched
\* configuration has no deliver subject.
C31_WitnessAttach ==
    /\ Returned /\ call.path = "attach" /\ ~js.direct
    /\ sub.jsi.deliver = _EMPTY_ /\ sub.Subject # _EMPTY_

\* C32: for a callback subscription with automatic acknowledgment, the
\* acknowledgment of a delivered message is issued in the step in which its
\* callback returns, so it has been issued when the user callback for the next
\* delivered message of the subscription starts.
C32_AckBeforeNextCallback ==
    [][(sub.jsi.set /\ sub.autoAck) =>
          /\ (dlv.stage = "callback" /\ dlv'.stage = "returned") =>
                (dlv.ackCalls = 0 /\ dlv'.ackCalls = 1)
          /\ (dlv.seq >= 1 /\ dlv'.seq = dlv.seq + 1) =>
                (dlv.stage = "returned" /\ dlv.ackCalls = 1
                 /\ dlv'.stage = "callback" /\ dlv'.ackCalls = 0)]_vars

\* The user callback runs for the second message of an auto-ack subscription.
C32_Witness ==
    /\ sub.jsi.set /\ sub.autoAck
    /\ dlv.seq = 2 /\ dlv.stage = "callback"

\* The acknowledgment operations.
AckOps == {"Ack", "AckSync", "Nak", "Term", "InProgress"}

\* The operation handed a message on the reply subject to the transport.
SentToReply == \E i \in 1..Len(op.sent) : op.sent[i].subj = op.Reply

\* Every acknowledgment operation but InProgress on a pull binding that
\* returned without error has sent to the reply subject.
AckButInProgressSendsToReply ==
    (OpOnJSMsg /\ op.name \in AckOps /\ op.err = ErrNone
       /\ ~(op.name = "InProgress" /\ op.jsi.pull > 0))
    => SentToReply

\* C33: every acknowledgment operation (Ack, AckSync, Nak, Term, InProgress)
\* that returns without error on a bound JetStream message, in push mode and
\* in pull mode, has sent at least one message to the message's reply subject.
C33_AckSendsToReply ==
    (OpOnJSMsg /\ op.name \in AckOps /\ op.err = ErrNone) => SentToReply

\* Every consumer-info request of the attach path is made on the subject built
\* from the stream and consumer names the caller gave.
InfoRequestNamesGiven ==
    \A i \in 1..Len(net) :
        (call.path = "attach" /\ net[i].op = "REQ") =>
            net[i].subj = apiSubj(JSApiConsumerInfoT(call.args.stream, call.args.consumer))

\* C34: every consumer-info request that subscribe sends on the attach path
\* names a non-empty stream and a non-empty consumer, for every combination of
\* options that selects the attach path.
C34_InfoRequestNamesConsumer ==
    \A i \in 1..Len(net) :
        (call.path = "attach" /\ net[i].op = "REQ") =>
            /\ net[i].subj = apiSubj(JSApiConsumerInfoT(call.o.stream, call.o.consumer))
            /\ call.o.stream # _EMPTY_
            /\ call.o.consumer # _EMPTY_

\* The caller gave a deliver subject (PushDirect).
DeliverGiven == call.pc # "none" /\ call.args.deliverSubject # _EMPTY_

\* The one local subscription of the call was made on subject s.
ListensOn(s) ==
    /\ sub.made /\ ~sub.closed /\ sub.Subject = s
    /\ \A i \in Indices(IsLocalSub) : net[i].subj = s /\ net[i].err = ErrNone
    /\ Indices(IsLocalSub) # {}

\* C35 as stated: whenever the caller supplies an explicit deliver subject and
\* subscribe succeeds, in direct mode and outside it, the local transport
\* subscription listens on exactly that subject.
C35_ListensOnGivenDeliver ==
    (Returned /\ DeliverGiven) => ListensOn(call.args.deliverSubject)

\* C35 amended: whenever the caller supplies an explicit deliver subject and
\* subscribe succeeds, the local subscription listens on exactly that subject
\* in direct mode; outside direct mode it listens on the deliver subject of
\* the fetched consumer configuration, and on a new inbox when that is empty.
C35_ListensOnGivenOrConfiguredDeliver ==
    (Returned /\ DeliverGiven) =>
        IF js.direct THEN ListensOn(call.args.deliverSubject)
        ELSE IF call.ccfg.DeliverSubject # _EMPTY_
          THEN ListensOn(call.ccfg.DeliverSubject)
        ELSE sub.Subject \notin DeliverSubjects /\ ListensOn(sub.Subject)

\* A direct-mode bind with a deliver subject returned.
C35_Witness ==
    /\ Returned /\ DeliverGiven /\ js.direct
    /\ sub.Subject = call.args.deliverSubject

\* Outside direct mode a bind with a deliver subject returned on an inbox.
C35_WitnessConfigured ==
    /\ Returned /\ DeliverGiven /\ ~js.direct
    /\ sub.Subject # call.args.deliverSubject

\* The publish request got a response that decoded, carried no error payload
\* and named a non-empty stream.
ValidPubAckResponse ==
    /\ api.sent # <<>>
    /\ api.resp.kind = "json"
    /\ ~api.resp.hasError
    /\ api.resp.hasAck /\ api.resp.stream # _EMPTY_

\* C36: publish returns a PubAck only if the request got a response that
\* decoded, carried no error payload and named a non-empty stream; in every
\* other outcome it returns an error and no PubAck, whatever the sequence
\* number in the response.
C36_PubAckOnlyFromValidResponse ==
    api.name = "Publish" =>
        /\ api.ret => (ValidPubAckResponse /\ api.err = ErrNone)
        /\ ~ValidPubAckResponse =>
              (~api.ret /\ api.err # ErrNone /\ api.pa = NoPubAck)

\* A publish returned a PubAck.
C36_Witness ==
    /\ api.name = "Publish" /\ api.ret
    /\ api.pa.Stream # _EMPTY_

\* A publish got a response with a sequence number and no stream name.
C36_WitnessNoStream ==
    /\ api.name = "Publish" /\ api.sent # <<>>
    /\ api.resp.kind = "json" /\ ~api.resp.hasError /\ api.resp.hasAck
    /\ api.resp.stream = _EMPTY_ /\ api.resp.seq # 0
    /\ ~api.ret

\* C37: in direct mode neither creating the JetStream context nor subscribe
\* issues a request/response call to the management API (no account-info,
\* stream-lookup, consumer-info or consumer-create request); the only API
\* message a direct-mode bind sends is the published next-message request of
\* a pull bind.
C37_DirectModeNoApiRequest ==
    js.direct =>
        /\ api.name = "JetStream" => (api.sent = <<>> /\ api.err = ErrNone)
        /\ \A i \in 1..Len(net) :
              /\ net[i].op # "REQ"
              /\ net[i].op = "PUB" =>
                    /\ isPullMode(call.o)
                    /\ i = Len(net) /\ Returned
                    /\ net[i].subj = apiSubj(JSApiRequestNextT(sub.jsi.stream,
                                                              sub.jsi.consumer))
                    /\ net[i].reply = sub.Subject
                    /\ net[i].body = NextRequestJSON(sub.jsi.pull)

\* A direct-mode pull bind returned, its next-message request published.
C37_Witness ==
    /\ js.direct /\ Returned
    /\ isPullMode(call.o)
    /\ Indices(IsNextReq) # {}

\* A direct-mode context was created.
C37_WitnessContext ==
    /\ js.direct /\ api.name = "JetStream" /\ api.err = ErrNone

\* parseNum returns -1 for the empty token and for a token with a byte that is
\* no digit, and the decimal value for a token of digits whose value fits the
\* signed width.
ParseNumWithinRange ==
    api.name = "parseNum" =>
        LET d == api.args.d
        IN  /\ ~IsNumber(d) => api.args.out = -1
            /\ (IsNumber(d) /\ Decimal(d) < 2^(IntBits - 1)) =>
                  api.args.out = Decimal(d)

\* C38: for every non-empty token made only of decimal digits, whatever its
\* length, parseNum returns a non-negative value equal to the token's decimal
\* value, so a result of -1 always and only means the token was unparseable.
C38_DigitsParseToValue ==
    api.name = "parseNum" =>
        LET d == api.args.d
        IN  /\ IsNumber(d) => (api.args.out >= 0 /\ api.args.out = Decimal(d))
            /\ api.args.out = -1 <=> ~IsNumber(d)

============================================================================
